---- MODULE Spec2Model ----
(***************************************************************************)
(* ServerDashboardContainer. Schema-driven code generation:                *)
(*   - the orchestrator of schema/generators/generate_all.py (main,        *)
(*     SchemaGenerator.load_schema / validate_schema / generate_all),      *)
(*   - the bash-output parsers emitted by generate_parsers.py              *)
(*     (srcs/DataCollection/generated/bash_parser.py),                     *)
(*   - the dataclasses emitted by generate_python.py                       *)
(*     (srcs/Backend/generated/models/*.py).                               *)
(*   - the files the six generators write (generate_sql.py,                *)
(*     generate_python.py, generate_typescript.py, generate_validators.py, *)
(*     generate_parsers.py, generate_docs.py) and the output tree they     *)
(*     leave over repeated runs.                                           *)
(* The running services:                                                   *)
(*   - the dashboard's cache (srcs/Frontend/cache_utils.py: SimpleCache    *)
(*     and the decorator cached),                                          *)
(*   - its API client (srcs/Frontend/api_client.py: retry_on_failure,      *)
(*     get_latest_server_metrics),                                         *)
(*   - the collection loop (srcs/DataCollection/backend.py:                *)
(*     main_continuous).                                                   *)
(* Text is modelled as a sequence of one-character strings.                *)
(***************************************************************************)
EXTENDS Integers, Sequences, FiniteSets, TLC

VARIABLES
    \* ---- orchestrator (generate_all.py) ----
    pc,               \* position of main(): start, loaded, validated, generating, exited
    args,             \* parsed command line: summary, validate_only, target
    file,             \* what yaml.safe_load finds at args.schema
    schema,           \* SchemaGenerator.schema
    errors,           \* the list validate_schema collected
    gen_idx,          \* next `if "<target>" in targets` block of generate_all
    invoked,          \* target -> number of calls of its generator
    raised,           \* targets whose generator raised
    success,          \* generate_all's aggregate flag
    generated_files,  \* SchemaGenerator.generated_files
    written,          \* files the generators wrote to the output tree
    exit_status,      \* process exit status
    tree,             \* the output tree: path -> content of the file there
    clock,            \* index into Instants of the latest datetime.now()
    run,              \* number of the current run of the program
    prev,             \* how the previous run ended: its success flag and tree
    \* ---- generated bash parser (bash_parser.py) ----
    bash_output,      \* the text handed to the parser
    bash_fields,      \* the schema fields with bash_output set, in schema order
    parser,           \* which parser has run: none, server_metrics, top_users
    result,           \* what the parser returned
    \* ---- generated dataclass (models/*.py) ----
    cls,              \* the fields of the generated dataclass
    instance,         \* the instance under conversion
    as_dict,          \* to_dict(instance)
    restored,         \* from_dict(as_dict)
    rpc,              \* position of the round trip: new, dumped, restored
    \* ---- dashboard cache and API client (cache_utils.py, api_client.py) ----
    now_s,            \* datetime.now() of the dashboard process, in seconds
    simple_cache,     \* the SimpleCache: _cache, _hits, _misses
    oplog,            \* the calls made on the SimpleCache, in order
    calls,            \* the calls of @cached functions that have returned
    requests,         \* number of requests.get issued by _make_api_request
    retry,            \* the call in progress of a retry_on_failure wrapper
    \* ---- collection service (backend.py) ----
    main_pc,          \* position of main_continuous: start, loop
    disk_data_counter,    \* main_continuous's disk_data_counter
    cleanup_counter,  \* main_continuous's cleanup_counter
    cycles            \* the calls of run_single_collection_cycle, in order

vars == <<pc, args, file, schema, errors, gen_idx, invoked, raised, success,
          generated_files, written, exit_status, tree, clock, run, prev,
          bash_output, bash_fields, parser, result,
          cls, instance, as_dict, restored, rpc,
          now_s, simple_cache, oplog, calls, requests, retry,
          main_pc, disk_data_counter, cleanup_counter, cycles>>

orch_vars == <<pc, args, file, schema, errors, gen_idx, invoked, raised, success,
               generated_files, written, exit_status, tree, clock, run, prev>>
parser_vars == <<bash_output, bash_fields, parser, result>>
record_vars == <<cls, instance, as_dict, restored, rpc>>
cache_vars == <<now_s, simple_cache, oplog, calls, requests>>
loop_vars == <<main_pc, disk_data_counter, cleanup_counter, cycles>>
service_vars == <<cache_vars, retry, loop_vars>>

----------------------------------------------------------------------------
(* Python values *)

\* Python's None and a present value, kept apart from every text.
None == [some |-> FALSE]
Some(v) == [some |-> TRUE, val |-> v]

\* dict.get(key, default)
Get(d, k, default) == IF k \in DOMAIN d THEN d[k] ELSE default

\* a mapping with the optional key k
Opt(k, S) == {<<>>} \cup {k :> v : v \in S}

\* Text is a sequence of characters; a datetime is the tuple
\* <<year, month, day, hour, minute, second, microsecond>>.

Digits == <<"0", "1", "2", "3", "4", "5", "6", "7", "8", "9">>

\* n as exactly w decimal digits (the %0wd of isoformat)
RECURSIVE Padded(_, _)
Padded(n, w) == IF w = 0 THEN <<>> ELSE Padded(n \div 10, w - 1) \o <<Digits[(n % 10) + 1]>>

\* datetime.isoformat(): YYYY-MM-DDTHH:MM:SS, and .ffffff when microsecond # 0
isoformat(d) ==
    Padded(d[1], 4) \o <<"-">> \o Padded(d[2], 2) \o <<"-">> \o Padded(d[3], 2)
        \o <<"T">> \o Padded(d[4], 2) \o <<":">> \o Padded(d[5], 2) \o <<":">>
        \o Padded(d[6], 2)
        \o (IF d[7] # 0 THEN <<".">> \o Padded(d[7], 6) ELSE <<>>)

\* datetime.strftime("%Y%m%d_%H%M%S")
strftime(d) ==
    Padded(d[1], 4) \o Padded(d[2], 2) \o Padded(d[3], 2) \o <<"_">>
        \o Padded(d[4], 2) \o Padded(d[5], 2) \o Padded(d[6], 2)

----------------------------------------------------------------------------
(* Bounds of the model *)

\* most calls logged on the dashboard's cache, and the last second of its clock
MaxOps == 3
MaxTime == 2

\* most calls of wrapped functions
MaxCalls == 3

\* Loop cycles of main_continuous that are explored.
MaxCycles == 700

\* longest field list of an entity in the schemas the validator is run on
MaxFields == 2

----------------------------------------------------------------------------
(* SchemaGenerator.validate_schema *)

required_keys == <<"version", "server_metrics", "top_users">>

\* errors.append(f"Missing required key: {key}") for each key not in the schema
MissingKeyErrors(s) ==
    LET Miss[i \in 0..Len(required_keys)] ==
            IF i = 0 THEN <<>>
            ELSE IF required_keys[i] \in DOMAIN s THEN Miss[i - 1]
                 ELSE Append(Miss[i - 1],
                             [msg |-> "Missing required key", key |-> required_keys[i]])
    IN Miss[Len(required_keys)]

\* field.get("bash_output") and "bash_index" in field
DeclaresBashIndex(field) ==
    /\ Get(field, "bash_output", FALSE) = TRUE
    /\ "bash_index" \in DOMAIN field

\* key = (idx, fmt)
BashKey(field) == <<field["bash_index"], Get(field, "bash_format", "raw")>>

\* The loop over the server_metrics fields: st is <<errors, bash_indices>>.
ServerMetricsFieldStep(st, field) ==
    IF "name" \notin DOMAIN field
    THEN <<Append(st[1], [msg |-> "Field missing 'name' property", field |-> field]),
           st[2]>>
    ELSE LET e1 == IF "type" \notin DOMAIN field
                   THEN Append(st[1], [msg |-> "Field missing 'type' property",
                                       name |-> field["name"]])
                   ELSE st[1]
         IN IF DeclaresBashIndex(field)
            THEN <<IF BashKey(field) \in st[2]
                   THEN Append(e1, [msg |-> "Duplicate bash_index",
                                    idx |-> BashKey(field)[1],
                                    fmt |-> BashKey(field)[2],
                                    name |-> field["name"]])
                   ELSE e1,
                   st[2] \cup {BashKey(field)}>>
            ELSE <<e1, st[2]>>

ServerMetricsErrors(s) ==
    IF "server_metrics" \notin DOMAIN s THEN <<>>
    ELSE LET fields == Get(s["server_metrics"], "fields", <<>>)
             Run[i \in 0..Len(fields)] ==
                 IF i = 0 THEN <<<<>>, {}>>
                 ELSE ServerMetricsFieldStep(Run[i - 1], fields[i])
         IN Run[Len(fields)][1]

\* The loop over the top_users fields.
TopUsersFieldStep(errs, field) ==
    IF "name" \notin DOMAIN field \/ "type" \notin DOMAIN field
    THEN Append(errs, [msg |-> "Invalid field in top_users", field |-> field])
    ELSE errs

TopUsersErrors(s) ==
    IF "top_users" \notin DOMAIN s THEN <<>>
    ELSE LET fields == Get(s["top_users"], "fields", <<>>)
             Run[i \in 0..Len(fields)] ==
                 IF i = 0 THEN <<>>
                 ELSE TopUsersFieldStep(Run[i - 1], fields[i])
         IN Run[Len(fields)]

\* the list `errors` at the end of validate_schema
validate_schema(s) == MissingKeyErrors(s) \o ServerMetricsErrors(s) \o TopUsersErrors(s)

----------------------------------------------------------------------------
(* Schema documents *)

\* A field as the YAML gives it: a mapping in which every key is optional, or
\* one whose name or type is the empty text.
FieldShapes ==
    {[name |-> "", type |-> "integer"], [name |-> "f", type |-> ""]} \cup
    {n @@ t @@ x : n \in Opt("name", {"f"}),
                   t \in Opt("type", {"integer"}),
                   x \in {<<>>,
                          ("bash_output" :> TRUE) @@ ("bash_index" :> 0),
                          ("bash_output" :> TRUE) @@ ("bash_index" :> 0)
                              @@ ("bash_format" :> "raw"),
                          ("bash_output" :> TRUE) @@ ("bash_index" :> 0)
                              @@ ("bash_format" :> "part_before_slash")}}

FieldLists(n) == UNION {[1..k -> FieldShapes] : k \in 0..n}

Entity(fields) == [table_name |-> "t", fields |-> fields]

\* a well-formed field reading column idx with format fmt
BashField(name, idx, fmt) ==
    [name |-> name, type |-> "varchar", bash_output |-> TRUE,
     bash_index |-> idx, bash_format |-> fmt]

PlainField == [name |-> "id", type |-> "serial"]

\* The documents the orchestrator is run on: a valid one, one with a section
\* missing, one with a nameless field, and one with a repeated
\* (bash_index, bash_format) pair in either entity.
OrchDocuments ==
    LET ok  == <<PlainField, BashField("a", 0, "raw")>>
        dup == <<BashField("a", 0, "raw"), BashField("b", 0, "raw")>>
    IN {[version |-> "1.0.0", server_metrics |-> Entity(ok), top_users |-> Entity(ok)],
        [version |-> "1.0.0", server_metrics |-> Entity(ok)],
        [version |-> "1.0.0", server_metrics |-> Entity(<<[type |-> "serial"]>>),
                              top_users |-> Entity(ok)],
        [version |-> "1.0.0", server_metrics |-> Entity(dup), top_users |-> Entity(ok)],
        [version |-> "1.0.0", server_metrics |-> Entity(ok), top_users |-> Entity(dup)]}

\* The documents the validator alone is run on: every section optional, one
\* entity ranging over all field lists while the other is empty or valid.
ValidatorDocuments ==
    LET base == {<<>>, <<PlainField>>}
        pairs == (FieldLists(MaxFields) \X base) \cup (base \X FieldLists(MaxFields))
    IN {v @@ (IF sm THEN "server_metrics" :> Entity(p[1]) ELSE <<>>)
          @@ (IF tu THEN "top_users" :> Entity(p[2]) ELSE <<>>) :
            v \in Opt("version", {"1.0.0"}), p \in pairs, sm \in BOOLEAN, tu \in BOOLEAN}

\* The instants datetime.now() can return, in time order; the first two lie in
\* the same second.
Instants ==
    <<<<2025, 11, 5, 0, 11, 46, 315719>>, <<2025, 11, 5, 0, 11, 46, 900000>>,
      <<2025, 11, 6, 9, 30, 0, 0>>>>

----------------------------------------------------------------------------
(* The generators, as the orchestrator sees them *)

\* the order of the `if "<target>" in targets` blocks of generate_all
TargetOrder == <<"sql", "python", "typescript", "validators", "parsers", "docs">>
TargetNames == {TargetOrder[i] : i \in 1..Len(TargetOrder)}

\* targets = None if args.target == "all" else args.target.split(","), and
\* generate_all's default for None; only membership is ever asked of it.
SelectedTargets(a) == IF a.target = {"all"} THEN TargetNames ELSE a.target

----------------------------------------------------------------------------
(* Python's str methods, on texts as sequences of characters *)

Whitespace == {" ", "\t", "\n", "\r"}

\* s.lstrip() / s.rstrip() / s.strip()
RECURSIVE LStrip(_)
LStrip(s) == IF s # <<>> /\ Head(s) \in Whitespace THEN LStrip(Tail(s)) ELSE s

RECURSIVE RStrip(_)
RStrip(s) ==
    IF s # <<>> /\ s[Len(s)] \in Whitespace THEN RStrip(SubSeq(s, 1, Len(s) - 1)) ELSE s

Strip(s) == RStrip(LStrip(s))

\* s.rstrip(ch): every trailing ch is removed
RECURSIVE RStripChar(_, _)
RStripChar(s, ch) ==
    IF s # <<>> /\ s[Len(s)] = ch THEN RStripChar(SubSeq(s, 1, Len(s) - 1), ch) ELSE s

\* ch in s
Contains(s, ch) == \E i \in 1..Len(s) : s[i] = ch

\* sub in s, for a text sub
ContainsText(s, sub) ==
    \E i \in 1..(Len(s) - Len(sub) + 1) : SubSeq(s, i, i + Len(sub) - 1) = sub

\* the k-th smallest element of a set of positions
Kth(S, k) == CHOOSE p \in S : Cardinality({q \in S : q < p}) = k - 1

\* s.split(sep): cut at every sep; always at least one part
Split(s, sep) ==
    LET seps == {i \in 1..Len(s) : s[i] = sep}
        n == Cardinality(seps)
        cut(k) == IF k = 0 THEN 0 ELSE IF k = n + 1 THEN Len(s) + 1 ELSE Kth(seps, k)
    IN [k \in 1..(n + 1) |-> SubSeq(s, cut(k - 1) + 1, cut(k) - 1)]

\* s.split(): the maximal runs of characters that are not whitespace
SplitWhitespace(s) ==
    LET starts == {i \in 1..Len(s) :
                      s[i] \notin Whitespace /\ (i = 1 \/ s[i - 1] \in Whitespace)}
        ends == {i \in 1..Len(s) :
                    s[i] \notin Whitespace /\ (i = Len(s) \/ s[i + 1] \in Whitespace)}
    IN [k \in 1..Cardinality(starts) |-> SubSeq(s, Kth(starts, k), Kth(ends, k))]

\* sep.join(parts)
RECURSIVE Join(_, _)
Join(parts, sep) ==
    IF parts = <<>> THEN <<>>
    ELSE IF Len(parts) = 1 THEN parts[1]
         ELSE parts[1] \o <<sep>> \o Join(Tail(parts), sep)

----------------------------------------------------------------------------
(* The parser generate_parsers emits for the server_metrics fields *)

\* bash_format.startswith("csv_split_") and split_idx = bash_format.split("_")[-1]
CsvSplitIndex == [csv_split_0 |-> 0, csv_split_1 |-> 1, csv_split_2 |-> 2]

\* result['<name>'] = value, on the dict built so far
SetItem(res, name, value) == (name :> value) @@ res

\* The statement emitted for one field, run on the dict built so far. Python
\* indexes from 0: parts[idx] is parts[idx + 1] here.
ServerMetricsStatement(res, field, parts) ==
    LET idx == field["bash_index"]
        name == field["name"]
        bash_format == Get(field, "bash_format", "raw")
        part == parts[idx + 1]
    IN CASE bash_format = "raw" ->
                SetItem(res, name,
                        IF Len(parts) > idx THEN Some(Strip(part)) ELSE None)
         [] bash_format = "part_before_slash" ->
                IF Len(parts) > idx
                THEN SetItem(res, name,
                             IF Contains(part, "/")
                             THEN Some(Strip(Split(part, "/")[1]))
                             ELSE Some(Strip(part)))
                ELSE res
         [] bash_format = "part_after_slash" ->
                IF Len(parts) > idx
                THEN SetItem(res, name,
                             IF Contains(part, "/")
                             THEN Some(Strip(Split(part, "/")[2]))
                             ELSE Some(Strip(part)))
                ELSE res
         [] bash_format \in DOMAIN CsvSplitIndex ->
                IF Len(parts) > idx
                THEN LET csv_parts == Split(part, ",")
                         split_idx == CsvSplitIndex[bash_format]
                     IN SetItem(res, name,
                                IF Len(csv_parts) > split_idx
                                THEN Some(Strip(csv_parts[split_idx + 1]))
                                ELSE None)
                ELSE res
         [] bash_format = "strip_percent" ->
                IF Len(parts) > idx
                THEN SetItem(res, name, Some(Strip(RStripChar(part, "%"))))
                ELSE res
         [] OTHER -> res

\* parse_server_metrics(bash_output) as emitted for the bash fields `fields`
parse_server_metrics(fields, text) ==
    LET parts == Split(Strip(text), ",")
        Run[i \in 0..Len(fields)] ==
            IF i = 0 THEN <<>>
            ELSE ServerMetricsStatement(Run[i - 1], fields[i], parts)
    IN Run[Len(fields)]

----------------------------------------------------------------------------
(* The parsers generate_parsers emits for the top_users fields *)

\* The statement emitted for one field: the format is not consulted.
TopUsersStatement(res, field, parts) ==
    LET idx == field["bash_index"]
    IN SetItem(res, field["name"],
               IF Len(parts) > idx THEN Some(Strip(parts[idx + 1])) ELSE None)

\* parse_top_users_line(bash_line)
parse_top_users_line(fields, bash_line) ==
    LET parts == SplitWhitespace(Strip(bash_line))
        Run[i \in 0..Len(fields)] ==
            IF i = 0 THEN <<>>
            ELSE TopUsersStatement(Run[i - 1], fields[i], parts)
    IN IF parts = <<>> THEN <<>> ELSE Run[Len(fields)]

Separator == <<"-", "-", "-", "-">>

\* [line for line in seq if keep(line)]
RECURSIVE NonBlank(_)
NonBlank(lines) ==
    IF lines = <<>> THEN <<>>
    ELSE IF Strip(Head(lines)) # <<>> THEN <<Head(lines)>> \o NonBlank(Tail(lines))
         ELSE NonBlank(Tail(lines))

\* DataLines with a one-line header: only the first line is skipped.
DataLines_OneLineHeader(lines) ==
    LET F[i \in 0..Len(lines)] ==
            IF i = 0 THEN <<>>
            ELSE IF i - 1 < 1 THEN F[i - 1]
                 ELSE IF ContainsText(lines[i], Separator) THEN F[i - 1]
                      ELSE Append(F[i - 1], lines[i])
    IN F[Len(lines)]

\* the loop collecting data_lines: i is the zero-based index into lines
DataLines(lines) ==
    LET F[i \in 0..Len(lines)] ==
            IF i = 0 THEN <<>>
            ELSE IF i - 1 < 2 THEN F[i - 1]
                 ELSE IF ContainsText(lines[i], Separator) THEN F[i - 1]
                      ELSE Append(F[i - 1], lines[i])
    IN F[Len(lines)]

\* parse_top_users(bash_output)
parse_top_users(fields, text) ==
    LET lines == NonBlank(Split(text, "\n"))
        data_lines == NonBlank(DataLines(lines))
    IN [i \in 1..Len(data_lines) |-> parse_top_users_line(fields, data_lines[i])]

----------------------------------------------------------------------------
(* Inputs of the parsers *)

\* longest line handed to parse_server_metrics
MaxLen == 4
\* most lines of a block handed to parse_top_users
MaxLines == 4

LineAlphabet == {"a", "/", ",", "%", " "}
Lines == UNION {[1..n -> LineAlphabet] : n \in 0..MaxLen}

\* the line of the extraction scenarios
ExampleLine ==
    <<"x", "8", "6", "_", "6", "4", ",", "L", "i", "n", "u", "x", ",",
        "2", ",", "4", ",", "8", "G", "/", "1", "6", "G", ",", "5", "0", ",",
        "1", "0", "0", "G", "/", "5", "0", "0", "G", ",", "2", "0", "%", ",",
        "0", ".", "1", ",", "0", ".", "2", ",", "0", ".", "3", ",", "2", "0",
        "2", "4", "-", "0", "1", "-", "0", "1", ",", "5", ",", "2", ",", "0",
        ",", "1">>

BlockLines == {<<>>, <<" ">>, <<"a">>, <<"a", " ", "b">>, Separator,
               <<"a", "-", "-", "-", "-">>}
Blocks == {Join(ls, "\n") : ls \in UNION {[1..n -> BlockLines] : n \in 0..MaxLines}}

\* a header line, a separator line and one data line of the bounded lines
TabularBlocks == {Join(<<<<"U">>, Separator, line>>, "\n") : line \in Lines}

\* the bash fields of the two entities, as bash_parser.py was generated for them
ServerMetricsBashFields ==
    <<BashField("architecture", 0, "raw"), BashField("os", 1, "raw"),
      BashField("physical_cpus", 2, "raw"), BashField("virtual_cpus", 3, "raw"),
      BashField("ram_used", 4, "part_before_slash"),
      BashField("ram_total", 4, "part_after_slash"),
      BashField("ram_percentage", 5, "raw"),
      BashField("disk_used", 6, "part_before_slash"),
      BashField("disk_total", 6, "part_after_slash"),
      BashField("disk_percentage", 7, "strip_percent"),
      BashField("cpu_load_1min", 8, "csv_split_0"),
      BashField("cpu_load_5min", 8, "csv_split_1"),
      BashField("cpu_load_15min", 8, "csv_split_2"),
      BashField("last_boot", 9, "raw"), BashField("tcp_connections", 10, "raw"),
      BashField("logged_users", 11, "raw"), BashField("active_vnc", 12, "raw"),
      BashField("active_ssh", 13, "raw")>>

TopUsersBashFields ==
    <<BashField("username", 0, "raw"), BashField("cpu_percentage", 1, "raw"),
      BashField("memory_percentage", 2, "raw"), BashField("disk_usage_gb", 3, "raw"),
      BashField("process_count", 4, "raw"), BashField("top_process", 5, "raw"),
      BashField("last_login", 6, "raw"), BashField("full_name", 7, "raw")>>

Formats == {"raw", "part_before_slash", "part_after_slash", "csv_split_0",
            "csv_split_1", "strip_percent"}

\* schemas with one bash field "f"
SingleFields == {<<BashField("f", idx, fmt)>> : idx \in {0, 1}, fmt \in Formats}

----------------------------------------------------------------------------
(* Running the generated parsers *)

ParseServerMetrics ==
    /\ parser = "none"
    /\ parser' = "server_metrics"
    /\ result' = parse_server_metrics(bash_fields, bash_output)
    /\ UNCHANGED <<bash_output, bash_fields>>
    /\ UNCHANGED <<orch_vars, record_vars, service_vars>>

ParseTopUsers ==
    /\ parser = "none"
    /\ parser' = "top_users"
    /\ result' = parse_top_users(bash_fields, bash_output)
    /\ UNCHANGED <<bash_output, bash_fields>>
    /\ UNCHANGED <<orch_vars, record_vars, service_vars>>

----------------------------------------------------------------------------
(* The dataclass generate_dataclass emits, and its to_dict / from_dict *)

\* A Python value: <<type, payload>>. A str is a sequence of characters, a
\* datetime is <<year, month, day, hour, minute, second, microsecond>>.
PyNone == <<"NoneType", <<>>>>
PyInt(n) == <<"int", n>>
PyStr(chars) == <<"str", chars>>
PyDatetime(d) == <<"datetime", d>>
TypeOf(x) == x[1]
Payload(x) == x[2]

\* a == b on Python values: values of different types are never equal
PyEq(a, b) == TypeOf(a) = TypeOf(b) /\ Payload(a) = Payload(b)

\* the sized tokens of the schema, and yaml_type.split("(")[0]
SizedTypes == ("varchar(100)" :> "varchar") @@ ("varchar(255)" :> "varchar")
                @@ ("decimal(5,2)" :> "decimal")
BaseType(yaml_type) ==
    IF yaml_type \in DOMAIN SizedTypes THEN SizedTypes[yaml_type] ELSE yaml_type

python_type_mapping(yaml_type) ==
    LET mapping == [serial |-> "int", integer |-> "int", varchar |-> "str",
                    decimal |-> "float", timestamp |-> "datetime", text |-> "str",
                    boolean |-> "bool"]
    IN Get(mapping, BaseType(yaml_type), "Any")

\* is_optional = f.get("nullable", True) and not f.get("primary_key")
IsOptional(f) == Get(f, "nullable", TRUE) /\ ~Get(f, "primary_key", FALSE)

\* The annotated attributes of the emitted class, in field order: an optional
\* attribute is `Optional[<type>] = None`, any other has no default.
generate_dataclass(fields) ==
    [i \in 1..Len(fields) |->
        [name |-> fields[i]["name"],
         py_type |-> python_type_mapping(fields[i]["type"]),
         optional |-> IsOptional(fields[i])]]

Annotations(c) == {c[i].name : i \in 1..Len(c)}
Required(c) == {c[i].name : i \in {j \in 1..Len(c) : ~c[j].optional}}

\* to_dict: {k: v.isoformat() if isinstance(v, datetime) else v for k, v in __dict__}
to_dict(inst) ==
    [k \in DOMAIN inst |->
        IF TypeOf(inst[k]) = "datetime" THEN PyStr(isoformat(Payload(inst[k])))
        ELSE inst[k]]

\* from_dict: cls(**{k: v for k, v in data.items() if k in cls.__annotations__}).
\* The generated __init__ raises TypeError (None here) when an attribute
\* without default is not given, and fills the others with their default None.
from_dict(c, data) ==
    LET kwargs == [k \in DOMAIN data \cap Annotations(c) |-> data[k]]
    IN IF Required(c) \subseteq DOMAIN kwargs
       THEN Some([k \in Annotations(c) |->
                     IF k \in DOMAIN kwargs THEN kwargs[k] ELSE PyNone])
       ELSE None

\* the generated __eq__: the attributes compared as a tuple
InstanceEq(a, b) ==
    /\ DOMAIN a = DOMAIN b
    /\ \A k \in DOMAIN a : PyEq(a[k], b[k])

----------------------------------------------------------------------------
(* Record types and instances of the round trip *)

\* the fields the record types are generated from, in schema order
ModelFields ==
    <<[name |-> "id", type |-> "serial", primary_key |-> TRUE],
      [name |-> "server_name", type |-> "varchar(255)", nullable |-> FALSE],
      [name |-> "timestamp", type |-> "timestamp", nullable |-> FALSE],
      [name |-> "virtual_cpus", type |-> "integer"],
      [name |-> "last_boot", type |-> "timestamp"]>>

\* seq restricted to the positions in keep, order kept
RECURSIVE Pick(_, _, _)
Pick(seq, keep, i) ==
    IF i > Len(seq) THEN <<>>
    ELSE (IF i \in keep THEN <<seq[i]>> ELSE <<>>) \o Pick(seq, keep, i + 1)

\* every non-empty selection of the fields is the schema of one record type
RecordClasses ==
    {generate_dataclass(Pick(ModelFields, keep, 1)) :
        keep \in SUBSET (1..Len(ModelFields)) \ {{}}}

\* well-formed values of each Python type
ValuesOf(py_type) ==
    CASE py_type = "int" -> {PyInt(1), PyInt(16)}
      [] py_type = "str" -> {PyStr(<<"s", "1">>), PyStr(isoformat(<<2024, 1, 1, 0, 0, 0, 0>>))}
      [] py_type = "datetime" -> {PyDatetime(<<2024, 1, 1, 0, 0, 0, 0>>),
                                  PyDatetime(<<2025, 11, 5, 0, 11, 46, 315719>>)}
      [] OTHER -> {PyNone}

\* the instances of class c whose attributes hold values of their declared type,
\* an optional attribute possibly None
Instances(c) ==
    {inst \in [Annotations(c) -> UNION {ValuesOf(c[i].py_type) : i \in 1..Len(c)}
                                    \cup {PyNone}] :
        \A i \in 1..Len(c) :
            \/ inst[c[i].name] \in ValuesOf(c[i].py_type)
            \/ c[i].optional /\ inst[c[i].name] = PyNone}

\* instance.to_dict()
ToDict ==
    /\ rpc = "new"
    /\ as_dict' = to_dict(instance)
    /\ rpc' = "dumped"
    /\ UNCHANGED <<cls, instance, restored>>
    /\ UNCHANGED <<orch_vars, parser_vars, service_vars>>

\* cls.from_dict(data)
FromDict ==
    /\ rpc = "dumped"
    /\ restored' = from_dict(cls, as_dict)
    /\ rpc' = "restored"
    /\ UNCHANGED <<cls, instance, as_dict>>
    /\ UNCHANGED <<orch_vars, parser_vars, service_vars>>

----------------------------------------------------------------------------
(* The files the generators write *)

\* a destination: directory, the part of the file name computed at run time,
\* the fixed part of the file name
Path(dir, stamp, name) == <<dir, stamp, name>>

\* The leading lines of a file that interpolate schema["version"] and
\* schema["generated_at"] under a title, with or without a notice.
Stamped(s, title, notice) ==
    [title |-> title, version |-> Some(s["version"]),
     generated_at |-> Some(s["generated_at"]), notice |-> notice]

DoNotEdit == Some("DO NOT EDIT MANUALLY")
AutoGenerated == Some("auto-generated from schema/metrics_schema.yaml")

\* the entities of the document, in the order every generator visits them
TableKeys == <<"server_metrics", "top_users">>
ClassNames == [server_metrics |-> "ServerMetrics", top_users |-> "TopUsers"]

\* [f(key) for key in TableKeys if key in schema]
RECURSIVE PresentTables(_, _)
PresentTables(s, i) ==
    IF i > Len(TableKeys) THEN <<>>
    ELSE (IF TableKeys[i] \in DOMAIN s THEN <<TableKeys[i]>> ELSE <<>>)
            \o PresentTables(s, i + 1)

----------------------------------------------------------------------------
(* generate_sql.py *)

\* str.upper() on the type tokens of the documents
UpperCase ==
    ("" :> "") @@ ("serial" :> "SERIAL") @@ ("integer" :> "INTEGER")
        @@ ("varchar" :> "VARCHAR") @@ ("varchar(100)" :> "VARCHAR(100)")
        @@ ("varchar(255)" :> "VARCHAR(255)") @@ ("decimal(5,2)" :> "DECIMAL(5,2)")
        @@ ("timestamp" :> "TIMESTAMP") @@ ("text" :> "TEXT")
        @@ ("boolean" :> "BOOLEAN") @@ ("uuid" :> "UUID") @@ ("jsonb" :> "JSONB")
upper(token) == UpperCase[token]

\* the parts appended after the column type: a constraint is a tuple of texts
\* that " ".join() and the f-string put one after the other
Constraints(field) ==
    (IF Get(field, "primary_key", FALSE) THEN <<<<"PRIMARY KEY">>>> ELSE <<>>)
    \o (IF ~Get(field, "nullable", TRUE) THEN <<<<"NOT NULL">>>> ELSE <<>>)
    \o (IF "default" \in DOMAIN field
        THEN IF field["default"] = "CURRENT_TIMESTAMP"
             THEN <<<<"DEFAULT", "CURRENT_TIMESTAMP">>>>
             ELSE <<<<"DEFAULT", "'", field["default"], "'">>>>
        ELSE <<>>)

\* generate_create_table with NOT NULL on every field that does not say
\* nullable: true
generate_create_table_NotNullByDefault(fields) ==
    [i \in 1..Len(fields) |->
        [name |-> fields[i]["name"],
         sql_type |-> upper(fields[i]["type"]),
         constraints |->
            Constraints(("nullable" :> Get(fields[i], "nullable", FALSE))
                            @@ fields[i])]]

\* generate_create_table: one column definition per field, in field order:
\* the name, the type token in upper case, the constraints
generate_create_table(fields) ==
    [i \in 1..Len(fields) |->
        [name |-> fields[i]["name"],
         sql_type |-> upper(fields[i]["type"]),
         constraints |-> Constraints(fields[i])]]

\* "visualization" in field and "thresholds" in field["visualization"]
HasThresholds(field) ==
    /\ "visualization" \in DOMAIN field
    /\ "thresholds" \in DOMAIN field["visualization"]

\* IndexFields appending every field with thresholds, listed already or not
RECURSIVE IndexFields_NoMembershipTest(_, _, _)
IndexFields_NoMembershipTest(fields, i, index_fields) ==
    IF i > Len(fields) THEN index_fields
    ELSE IndexFields_NoMembershipTest(fields, i + 1,
            IF HasThresholds(fields[i])
            THEN Append(index_fields, fields[i]["name"])
            ELSE index_fields)

\* index_fields after the loop over fields[i..]: the name of a field with
\* thresholds is appended unless it is in the list already
RECURSIVE IndexFields(_, _, _)
IndexFields(fields, i, index_fields) ==
    IF i > Len(fields) THEN index_fields
    ELSE IndexFields(fields, i + 1,
            IF /\ HasThresholds(fields[i])
               /\ \A j \in 1..Len(index_fields) : index_fields[j] # fields[i]["name"]
            THEN Append(index_fields, fields[i]["name"])
            ELSE index_fields)

\* generate_indexes: one CREATE INDEX statement per listed name that some
\* field of the table bears, in list order
generate_indexes(table_name, fields) ==
    LET index_fields == IndexFields(fields, 1, <<"server_name", "timestamp">>)
        declared(field_name) == \E i \in 1..Len(fields) : fields[i]["name"] = field_name
        present == SelectSeq(index_fields, declared)
    IN [k \in 1..Len(present) |->
           [index_name |-> <<"idx_", table_name, "_", present[k]>>,
            table |-> table_name,
            column |-> present[k]]]

\* generate_sql_migration: the file name carries datetime.now() to the second,
\* the header carries schema["generated_at"].
generate_sql_migration(s, now) ==
    <<[path |-> Path("Backend/migrations/", strftime(now), "_schema_migration.sql"),
       content |->
          [header |-> Stamped(s, "Generated SQL Migration", DoNotEdit),
           body |-> [i \in 1..Len(PresentTables(s, 1)) |->
                        LET table == s[PresentTables(s, 1)[i]]
                        IN [table_name |-> table["table_name"],
                            columns |-> generate_create_table(table["fields"]),
                            indexes |-> generate_indexes(table["table_name"],
                                                         table["fields"])]]]]>>

----------------------------------------------------------------------------
(* generate_python.py *)

\* generate_python_models: one stamped file per entity in the document, then
\* __init__.py, which interpolates nothing.
generate_python_models(s) ==
    [i \in 1..Len(PresentTables(s, 1)) |->
        LET key == PresentTables(s, 1)[i]
        IN [path |-> Path("Backend/generated/models/", <<>>,
                          IF key = "server_metrics" THEN "server_metrics.py"
                          ELSE "top_users.py"),
            content |->
               [header |-> Stamped(s, "Generated Python Model", DoNotEdit),
                body |-> [class_name |-> ClassNames[key],
                          attributes |-> generate_dataclass(s[key]["fields"])]]]]
    \o <<[path |-> Path("Backend/generated/models/", <<>>, "__init__.py"),
          content |->
             [header |-> [title |-> "Generated models", version |-> None,
                          generated_at |-> None, notice |-> None],
              body |-> <<"ServerMetrics", "TopUsers">>]]>>

----------------------------------------------------------------------------
(* generate_typescript.py *)

ts_type_mapping(yaml_type) ==
    LET mapping == [serial |-> "number", integer |-> "number", varchar |-> "string",
                    decimal |-> "number", timestamp |-> "Date | string",
                    text |-> "string", boolean |-> "boolean"]
    IN Get(mapping, BaseType(yaml_type), "any")

\* generate_ts_interface with `?` on every nullable field, primary key or not
generate_ts_interface_NullableOnly(fields) ==
    [i \in 1..Len(fields) |->
        [name |-> fields[i]["name"],
         ts_type |-> ts_type_mapping(fields[i]["type"]),
         optional |-> Get(fields[i], "nullable", TRUE)]]

\* generate_ts_interface: the properties of the interface, in field order;
\* `?` marks is_optional = field.get('nullable', True) and not field.get('primary_key')
generate_ts_interface(fields) ==
    [i \in 1..Len(fields) |->
        [name |-> fields[i]["name"],
         ts_type |-> ts_type_mapping(fields[i]["type"]),
         optional |-> Get(fields[i], "nullable", TRUE)
                        /\ ~Get(fields[i], "primary_key", FALSE)]]

\* generate_typescript_types: types.ts
generate_typescript_types(s) ==
    <<[path |-> Path("Frontend/generated/", <<>>, "types.ts"),
       content |->
          [header |-> Stamped(s, "Generated TypeScript Types", DoNotEdit),
           body |-> [interfaces |->
                        [i \in 1..Len(PresentTables(s, 1)) |->
                            LET key == PresentTables(s, 1)[i]
                            IN [interface_name |-> ClassNames[key],
                                properties |-> generate_ts_interface(s[key]["fields"])]],
                     envelopes |-> <<"ApiResponse", "ApiError">>]]]>>

----------------------------------------------------------------------------
(* generate_validators.py *)

\* the validation types a primitive is emitted for, and the bounds each
\* primitive takes after (value, field_name), in parameter order
PrimitiveParams ==
    [percentage |-> <<>>, integer |-> <<"min", "max">>, float |-> <<"min", "max">>,
     string |-> <<"max_length">>]

\* [f for key in TableKeys if key in schema for f in schema[key]["fields"]]
RECURSIVE AllFields(_, _)
AllFields(s, i) ==
    IF i > Len(TableKeys) THEN <<>>
    ELSE (IF TableKeys[i] \in DOMAIN s THEN s[TableKeys[i]]["fields"] ELSE <<>>)
            \o AllFields(s, i + 1)

\* PrimitiveStep without seen_validators: a primitive per field
PrimitiveStep_PerField(st, field) ==
    IF "validation" \notin DOMAIN field THEN st
    ELSE LET val_type == field["validation"]["type"]
         IN <<st[1] \cup {val_type},
              IF val_type \in DOMAIN PrimitiveParams THEN Append(st[2], val_type)
              ELSE st[2]>>

\* The body of the first loop: st is <<seen_validators, primitives emitted>>.
PrimitiveStep(st, field) ==
    IF "validation" \notin DOMAIN field THEN st
    ELSE LET val_type == field["validation"]["type"]
         IN IF val_type \in st[1] THEN st
            ELSE <<st[1] \cup {val_type},
                   IF val_type \in DOMAIN PrimitiveParams THEN Append(st[2], val_type)
                   ELSE st[2]>>

\* the primitives of the file, in the order they are emitted
Primitives(s) ==
    LET fields == AllFields(s, 1)
        Run[i \in 0..Len(fields)] ==
            IF i = 0 THEN <<{}, <<>>>> ELSE PrimitiveStep(Run[i - 1], fields[i])
    IN Run[Len(fields)][2]

\* field["validation"].get(key)
Bound(v, key) == IF key \in DOMAIN v THEN Some(v[key]) ELSE None

\* FieldValidator that bakes no bound in
FieldValidator_NoBounds(field) ==
    LET v == field["validation"]
        val_type == v["type"]
    IN [name |-> field["name"],
        call |-> IF val_type \in DOMAIN PrimitiveParams
                 THEN Some([primitive |-> val_type,
                            bounds |-> [i \in 1..Len(PrimitiveParams[val_type]) |-> None]])
                 ELSE None]

\* The static method emitted for a field with a validation: validate_<name>,
\* returning the call of the primitive of its type; no return for another type.
FieldValidator(field) ==
    LET v == field["validation"]
        val_type == v["type"]
    IN [name |-> field["name"],
        call |-> CASE val_type = "percentage" ->
                        Some([primitive |-> "percentage", bounds |-> <<>>])
                   [] val_type = "integer" ->
                        Some([primitive |-> "integer",
                              bounds |-> <<Bound(v, "min"), Bound(v, "max")>>])
                   [] val_type = "float" ->
                        Some([primitive |-> "float",
                              bounds |-> <<Bound(v, "min"), Bound(v, "max")>>])
                   [] val_type = "string" ->
                        Some([primitive |-> "string",
                              bounds |-> <<Bound(v, "max_length")>>])
                   [] OTHER -> None]

\* the static methods of one <ClassName>Validator, in field order
RECURSIVE Namespace(_, _)
Namespace(fields, i) ==
    IF i > Len(fields) THEN <<>>
    ELSE (IF "validation" \in DOMAIN fields[i] THEN <<FieldValidator(fields[i])>>
          ELSE <<>>)
            \o Namespace(fields, i + 1)

\* generate_validators: validators.py
generate_validators(s) ==
    <<[path |-> Path("Frontend/generated/", <<>>, "validators.py"),
       content |->
          [header |-> Stamped(s, "Generated Validators", DoNotEdit),
           body |-> [primitives |-> Primitives(s),
                     namespaces |->
                        [i \in 1..Len(PresentTables(s, 1)) |->
                            LET key == PresentTables(s, 1)[i]
                            IN [table_key |-> key,
                                validators |-> Namespace(s[key]["fields"], 1)]]]]]>>

----------------------------------------------------------------------------
(* generate_parsers.py *)

\* bash_fields = [f for f in fields if f.get("bash_output")]
RECURSIVE BashFields(_, _)
BashFields(fields, i) ==
    IF i > Len(fields) THEN <<>>
    ELSE (IF Get(fields[i], "bash_output", FALSE) = TRUE THEN <<fields[i]>> ELSE <<>>)
            \o BashFields(fields, i + 1)

\* generate_parsers: bash_parser.py, the parser functions of the entities in
\* the document, each determined by the bash fields it was emitted for
generate_parsers(s) ==
    <<[path |-> Path("DataCollection/generated/", <<>>, "bash_parser.py"),
       content |->
          [header |-> Stamped(s, "Generated Bash Output Parser", DoNotEdit),
           body |-> [i \in 1..Len(PresentTables(s, 1)) |->
                        LET key == PresentTables(s, 1)[i]
                        IN [table_key |-> key,
                            bash_fields |-> BashFields(s[key]["fields"], 1)]]]]>>

----------------------------------------------------------------------------
(* generate_docs.py *)

\* the column table of one entity: a row per field, in field order
ColumnRows(fields) ==
    [i \in 1..Len(fields) |->
        [name |-> fields[i]["name"],
         ftype |-> fields[i]["type"],
         nullable |-> IF Get(fields[i], "nullable", TRUE) THEN "Yes" ELSE "No",
         desc |-> Get(fields[i], "description", "-")]]

\* ColumnRows in reverse field order
generate_database_schema_docs_Reversed(s) ==
    [i \in 1..Len(PresentTables(s, 1)) |->
        LET table == s[PresentTables(s, 1)[i]]
            rows == ColumnRows(table["fields"])
        IN [table_name |-> table["table_name"],
            rows |-> [j \in 1..Len(rows) |-> rows[Len(rows) + 1 - j]]]]

generate_database_schema_docs(s) ==
    [i \in 1..Len(PresentTables(s, 1)) |->
        LET table == s[PresentTables(s, 1)[i]]
        IN [table_name |-> table["table_name"],
            rows |-> ColumnRows(table["fields"])]]

\* generate_documentation: the three files of Docs/generated
generate_documentation(s) ==
    <<[path |-> Path("Docs/generated/", <<>>, "DATABASE_SCHEMA.md"),
       content |-> [header |-> Stamped(s, "Database Schema Documentation", AutoGenerated),
                    body |-> generate_database_schema_docs(s)]],
      [path |-> Path("Docs/generated/", <<>>, "API_DOCUMENTATION.md"),
       content |-> [header |-> Stamped(s, "API Documentation", AutoGenerated),
                    body |-> Get(s, "api_endpoints", <<>>)]],
      [path |-> Path("Docs/generated/", <<>>, "QUICK_REFERENCE.md"),
       content |-> [header |-> Stamped(s, "Quick Reference Guide", None),
                    body |-> [formats |-> <<"raw", "part_before_slash", "part_after_slash",
                                            "csv_split_0", "strip_percent">>,
                              validation_types |-> <<"percentage", "integer", "float",
                                                     "string">>]]]>>

----------------------------------------------------------------------------
(* What a generator writes, as the orchestrator sees it *)

\* The files generator t writes for the document s when datetime.now() is
\* `now`, in the order it writes them.
Artifacts(t, s, now) ==
    CASE t = "sql" -> generate_sql_migration(s, now)
      [] t = "python" -> generate_python_models(s)
      [] t = "typescript" -> generate_typescript_types(s)
      [] t = "validators" -> generate_validators(s)
      [] t = "parsers" -> generate_parsers(s)
      [] t = "docs" -> generate_documentation(s)

\* the paths a generator returns
FilesOf(t, s, now) ==
    [i \in 1..Len(Artifacts(t, s, now)) |-> Artifacts(t, s, now)[i].path]

\* the output tree after the first k files of arts were written over it
WriteFiles(tr, arts, k) ==
    [p \in DOMAIN tr \cup {arts[i].path : i \in 1..k} |->
        IF \E i \in 1..k : arts[i].path = p
        THEN arts[CHOOSE i \in 1..k : arts[i].path = p].content
        ELSE tr[p]]

----------------------------------------------------------------------------
(* Schema documents of the generators *)

\* names and types of the fields of a document, by position in the field list
GenNames == <<"id", "server_name", "cpu_load", "ram_used">>
GenTypes == <<"serial", "varchar(255)", "decimal(5,2)", "timestamp">>

\* validation mappings: each type without bounds and with some
ValidationSpecs ==
    {[type |-> "percentage"], [type |-> "percentage", min |-> 0, max |-> 50],
     [type |-> "integer", min |-> 0], [type |-> "float", min |-> 0, max |-> 100],
     [type |-> "string"], [type |-> "string", max_length |-> 255]}

\* the optional keys of a field: nullable and primary_key in every
\* combination, or a description
OptionalityShapes ==
    {n @@ k : n \in Opt("nullable", BOOLEAN), k \in Opt("primary_key", BOOLEAN)}
        \cup {"description" :> "d"}

\* the optional keys of a field: a validation or none
ValidationShapes == {<<>>} \cup {"validation" :> v : v \in ValidationSpecs}

GenField(i, shape) == ("name" :> GenNames[i]) @@ ("type" :> GenTypes[i]) @@ shape

GenFieldLists(shapes, n) ==
    UNION {{[i \in 1..k |-> GenField(i, sh[i])] : sh \in [1..k -> shapes]} :
              k \in 0..n}

\* Well-formed documents: one entity ranges over the field lists of one family
\* of shapes while the other holds one validated field; or top_users is not
\* there.
GeneratorDocuments ==
    LET base == {<<GenField(4, "validation" :> [type |-> "percentage"])>>}
        lists == GenFieldLists(OptionalityShapes, MaxFields)
                    \cup GenFieldLists(ValidationShapes, MaxFields)
        pairs == (lists \X base) \cup (base \X lists)
    IN {[version |-> "1.0.0", server_metrics |-> Entity(p[1]),
         top_users |-> Entity(p[2])] : p \in pairs}
       \cup {[version |-> "1.0.0", server_metrics |-> Entity(l)] :
                l \in GenFieldLists(ValidationShapes, 1)}

\* Documents of the storage generator. The optional keys of a field that
\* generate_create_table reads: primary_key and nullable in every combination,
\* a default (the reserved symbol, a literal, the empty text) on a field that
\* is nullable or not, and all three together.
ConstraintShapes ==
    {n @@ k : n \in Opt("nullable", BOOLEAN), k \in Opt("primary_key", BOOLEAN)}
        \cup {("default" :> d) @@ n : d \in {"CURRENT_TIMESTAMP", "0", ""},
                                     n \in {<<>>, "nullable" :> FALSE}}
        \cup {("primary_key" :> TRUE) @@ ("nullable" :> FALSE) @@ ("default" :> "0")}

\* type tokens the mapping tables know and tokens they do not
TypeShapes == {"type" :> t : t \in {"serial", "varchar(255)", "uuid", "jsonb"}}

\* what generate_indexes reads: the name of the field, and a visualization
\* mapping with thresholds or without
IndexShapes ==
    {("name" :> n) @@ v :
        n \in {"server_name", "timestamp", "cpu_load"},
        v \in Opt("visualization", {[thresholds |-> [warning |-> 80]],
                                    [chart_type |-> "line"]})}

\* the field at position i: the keys of shape, and the name and type of the
\* position where shape has none
SqlField(i, shape) == shape @@ GenField(i, <<>>)

SqlFieldLists(shapes, n) ==
    UNION {{[i \in 1..k |-> SqlField(i, sh[i])] : sh \in [1..k -> shapes]} :
              k \in 0..n}

\* server_metrics ranges over the field lists of a family while top_users
\* holds one plain field; for the index family also the other way round.
SqlDocuments ==
    LET base == {<<GenField(1, <<>>)>>}
        index == SqlFieldLists(IndexShapes, MaxFields)
        lists == SqlFieldLists(ConstraintShapes, MaxFields)
                    \cup SqlFieldLists(TypeShapes, MaxFields) \cup index
        pairs == (lists \X base) \cup (base \X index)
    IN {[version |-> "1.0.0", server_metrics |-> Entity(p[1]),
         top_users |-> Entity(p[2])] : p \in pairs}

----------------------------------------------------------------------------
(* main() of generate_all.py *)

Exit(status) ==
    /\ pc' = "exited"
    /\ exit_status' = status

\* SchemaGenerator.__init__ / load_schema: any exception ends the process with
\* status 1; otherwise the document is stamped with generated_at.
LoadSchema ==
    /\ pc = "start"
    /\ IF file = None
       THEN /\ Exit(1)
            /\ UNCHANGED <<schema, clock>>
       ELSE /\ \E now \in clock..Len(Instants) :
                  /\ schema' = Some(("generated_at" :> isoformat(Instants[now]))
                                        @@ file.val)
                  /\ clock' = now
            /\ pc' = "loaded"
            /\ UNCHANGED exit_status
    /\ UNCHANGED <<args, file, errors, gen_idx, invoked, raised, success,
                   generated_files, written, tree, run, prev>>
    /\ UNCHANGED <<parser_vars, record_vars, service_vars>>

\* if args.summary: generator.show_summary(); return
ShowSummary ==
    /\ pc = "loaded"
    /\ args.summary
    /\ Exit(0)
    /\ UNCHANGED <<args, file, schema, errors, gen_idx, invoked, raised, success,
                   generated_files, written>>
    /\ UNCHANGED <<tree, clock, run, prev>>
    /\ UNCHANGED <<parser_vars, record_vars, service_vars>>

\* MainValidate without the sys.exit(1): the errors are collected and ignored.
MainValidate_NoAbort ==
    /\ pc = "loaded"
    /\ ~args.summary
    /\ errors' = validate_schema(schema.val)
    /\ pc' = "validated"
    /\ UNCHANGED <<args, file, schema, gen_idx, invoked, raised, success,
                   generated_files, written, exit_status>>
    /\ UNCHANGED <<tree, clock, run, prev>>
    /\ UNCHANGED <<parser_vars, record_vars, service_vars>>

\* if not generator.validate_schema(): sys.exit(1)
MainValidate ==
    /\ pc = "loaded"
    /\ ~args.summary
    /\ errors' = validate_schema(schema.val)
    /\ IF errors' # <<>>
       THEN Exit(1)
       ELSE /\ pc' = "validated"
            /\ UNCHANGED exit_status
    /\ UNCHANGED <<args, file, schema, gen_idx, invoked, raised, success,
                   generated_files, written>>
    /\ UNCHANGED <<tree, clock, run, prev>>
    /\ UNCHANGED <<parser_vars, record_vars, service_vars>>

\* if args.validate_only: ...; return
ValidateOnlyReturn ==
    /\ pc = "validated"
    /\ args.validate_only
    /\ Exit(0)
    /\ UNCHANGED <<args, file, schema, errors, gen_idx, invoked, raised, success,
                   generated_files, written>>
    /\ UNCHANGED <<tree, clock, run, prev>>
    /\ UNCHANGED <<parser_vars, record_vars, service_vars>>

\* StartGenerate stamping the document again as generation starts
StartGenerate_Restamps ==
    /\ pc = "validated"
    /\ ~args.validate_only
    /\ pc' = "generating"
    /\ success' = TRUE
    /\ gen_idx' = 1
    /\ schema' = Some(("generated_at" :> isoformat(Instants[Len(Instants)]))
                          @@ schema.val)
    /\ UNCHANGED <<args, file, errors, invoked, raised, generated_files,
                   written, exit_status>>
    /\ UNCHANGED <<tree, clock, run, prev>>
    /\ UNCHANGED <<parser_vars, record_vars, service_vars>>

\* generator.generate_all(targets) up to `success = True`
StartGenerate ==
    /\ pc = "validated"
    /\ ~args.validate_only
    /\ pc' = "generating"
    /\ success' = TRUE
    /\ gen_idx' = 1
    /\ UNCHANGED <<args, file, schema, errors, invoked, raised, generated_files,
                   written, exit_status>>
    /\ UNCHANGED <<tree, clock, run, prev>>
    /\ UNCHANGED <<parser_vars, record_vars, service_vars>>

Prefix(seq, k) == SubSeq(seq, 1, k)
Range(seq) == {seq[i] : i \in 1..Len(seq)}

\* datetime.now() as generator t reads it: only generate_sql_migration does
NowChoices(t) == IF t = "sql" THEN clock..Len(Instants) ELSE {clock}

\* RunGenerator without the try/except: a raising generator ends generate_all.
RunGenerator_AbortOnRaise ==
    /\ pc = "generating"
    /\ gen_idx <= Len(TargetOrder)
    /\ LET t == TargetOrder[gen_idx]
       IN IF t \in SelectedTargets(args)
          THEN /\ invoked' = [invoked EXCEPT ![t] = @ + 1]
               /\ \E now \in NowChoices(t) :
                     LET arts == Artifacts(t, schema.val, Instants[now])
                         files == FilesOf(t, schema.val, Instants[now])
                     IN /\ clock' = now
                        /\ \/ /\ tree' = WriteFiles(tree, arts, Len(arts))
                              /\ generated_files' = generated_files \o files
                              /\ written' = written \cup Range(files)
                              /\ gen_idx' = gen_idx + 1
                              /\ UNCHANGED <<raised, success>>
                           \/ \E k \in 0..(Len(files) - 1) :
                                 /\ tree' = WriteFiles(tree, arts, k)
                                 /\ written' = written \cup Range(Prefix(files, k))
                                 /\ raised' = raised \cup {t}
                                 /\ success' = FALSE
                                 /\ gen_idx' = Len(TargetOrder) + 1
                                 /\ UNCHANGED generated_files
          ELSE /\ gen_idx' = gen_idx + 1
               /\ UNCHANGED <<invoked, raised, success, generated_files, written, tree, clock>>
    /\ UNCHANGED <<pc, args, file, schema, errors, exit_status, run, prev>>
    /\ UNCHANGED <<parser_vars, record_vars, service_vars>>

\* RunGenerator with `success` assigned in both branches: the flag tells only
\* how the last generator ended.
RunGenerator_LastWins ==
    /\ pc = "generating"
    /\ gen_idx <= Len(TargetOrder)
    /\ LET t == TargetOrder[gen_idx]
       IN IF t \in SelectedTargets(args)
          THEN /\ invoked' = [invoked EXCEPT ![t] = @ + 1]
               /\ \E now \in NowChoices(t) :
                     LET arts == Artifacts(t, schema.val, Instants[now])
                         files == FilesOf(t, schema.val, Instants[now])
                     IN /\ clock' = now
                        /\ \/ /\ tree' = WriteFiles(tree, arts, Len(arts))
                              /\ generated_files' = generated_files \o files
                              /\ written' = written \cup Range(files)
                              /\ success' = TRUE
                              /\ UNCHANGED raised
                           \/ \E k \in 0..(Len(files) - 1) :
                                 /\ tree' = WriteFiles(tree, arts, k)
                                 /\ written' = written \cup Range(Prefix(files, k))
                                 /\ raised' = raised \cup {t}
                                 /\ success' = FALSE
                                 /\ UNCHANGED generated_files
          ELSE UNCHANGED <<invoked, raised, success, generated_files, written, tree, clock>>
    /\ gen_idx' = gen_idx + 1
    /\ UNCHANGED <<pc, args, file, schema, errors, exit_status, run, prev>>
    /\ UNCHANGED <<parser_vars, record_vars, service_vars>>

\* One `if "<target>" in targets: try: ... except Exception: success = False`
\* block. The generator writes its files one after the other; it returns their
\* paths, or raises having written only the first k of them.
RunGenerator ==
    /\ pc = "generating"
    /\ gen_idx <= Len(TargetOrder)
    /\ LET t == TargetOrder[gen_idx]
       IN IF t \in SelectedTargets(args)
          THEN /\ invoked' = [invoked EXCEPT ![t] = @ + 1]
               /\ \E now \in NowChoices(t) :
                     LET arts == Artifacts(t, schema.val, Instants[now])
                         files == FilesOf(t, schema.val, Instants[now])
                     IN /\ clock' = now
                        /\ \/ /\ tree' = WriteFiles(tree, arts, Len(arts))
                              /\ generated_files' = generated_files \o files
                              /\ written' = written \cup Range(files)
                              /\ UNCHANGED <<raised, success>>
                           \/ \E k \in 0..(Len(files) - 1) :
                                 /\ tree' = WriteFiles(tree, arts, k)
                                 /\ written' = written \cup Range(Prefix(files, k))
                                 /\ raised' = raised \cup {t}
                                 /\ success' = FALSE
                                 /\ UNCHANGED generated_files
          ELSE UNCHANGED <<invoked, raised, success, generated_files, written, tree, clock>>
    /\ gen_idx' = gen_idx + 1
    /\ UNCHANGED <<pc, args, file, schema, errors, exit_status, run, prev>>
    /\ UNCHANGED <<parser_vars, record_vars, service_vars>>

\* return success; sys.exit(0 if success else 1)
FinishGenerate ==
    /\ pc = "generating"
    /\ gen_idx > Len(TargetOrder)
    /\ Exit(IF success THEN 0 ELSE 1)
    /\ UNCHANGED <<args, file, schema, errors, gen_idx, invoked, raised, success,
                   generated_files, written>>
    /\ UNCHANGED <<tree, clock, run, prev>>
    /\ UNCHANGED <<parser_vars, record_vars, service_vars>>

\* the generators whose `if __name__ == "__main__"` run is modelled
StandaloneTargets == {"python", "typescript", "validators", "docs"}

\* The __main__ block of generate_<t>.py: the document is loaded and stamped,
\* and the generator is called on it; generate_sql_migration reads the time
\* again.
StandaloneMain(t) ==
    /\ pc = "standalone"
    /\ invoked[t] = 0
    /\ \E now \in clock..Len(Instants) :
          \E at \in (IF t = "sql" THEN now..Len(Instants) ELSE {now}) :
             LET s == ("generated_at" :> isoformat(Instants[now])) @@ file.val
                 arts == Artifacts(t, s, Instants[at])
             IN /\ schema' = Some(s)
                /\ clock' = at
                /\ tree' = WriteFiles(tree, arts, Len(arts))
                /\ written' = written \cup Range(FilesOf(t, s, Instants[at]))
    /\ invoked' = [invoked EXCEPT ![t] = @ + 1]
    /\ UNCHANGED <<pc, args, file, errors, gen_idx, raised, success, generated_files,
                   exit_status, run, prev>>
    /\ UNCHANGED <<parser_vars, record_vars, service_vars>>

\* most runs of the program over one output tree
MaxRuns == 2

\* The program has ended with status 0 after generating and is started again,
\* with the same command line, on the unmodified schema document and over the
\* output tree as it is.
Regenerate ==
    /\ pc = "exited"
    /\ gen_idx > 0
    /\ exit_status = 0
    /\ run < MaxRuns
    /\ run' = run + 1
    /\ prev' = [ran |-> TRUE, tree |-> tree, generated_at |-> schema.val["generated_at"]]
    /\ pc' = "start"
    /\ schema' = None
    /\ errors' = <<>>
    /\ gen_idx' = 0
    /\ invoked' = [t \in TargetNames |-> 0]
    /\ raised' = {}
    /\ success' = TRUE
    /\ generated_files' = <<>>
    /\ written' = {}
    /\ exit_status' = -1
    /\ UNCHANGED <<args, file, tree, clock>>
    /\ UNCHANGED <<parser_vars, record_vars, service_vars>>

----------------------------------------------------------------------------
(* cache_utils.py: CacheEntry and SimpleCache *)

PyList(items) == <<"list", items>>

\* CacheEntry(data, ttl_seconds) built when datetime.now() is t
CacheEntry(data, ttl_seconds, t) ==
    [data |-> data, created_at |-> t, ttl_seconds |-> ttl_seconds]

\* is_expired with an entry expiring as its age reaches ttl_seconds
is_expired_AtTtl(entry, t) == t - entry.created_at >= entry.ttl_seconds

\* CacheEntry.is_expired when datetime.now() is t
is_expired(entry, t) == t - entry.created_at > entry.ttl_seconds

\* SimpleCache(): _cache, _hits, _misses
SimpleCache == [cache |-> <<>>, hits |-> 0, misses |-> 0]

\* del d[key], where key may be missing
Without(d, key) == [k \in DOMAIN d \ {key} |-> d[k]]

\* cache_get leaving the counters alone when it drops an expired entry
cache_get_ExpiryUncounted(self, key, t) ==
    IF key \in DOMAIN self.cache
    THEN IF ~is_expired(self.cache[key], t)
         THEN [self |-> [self EXCEPT !.hits = @ + 1],
               returned |-> self.cache[key].data]
         ELSE [self |-> [self EXCEPT !.cache = Without(@, key)], returned |-> PyNone]
    ELSE [self |-> [self EXCEPT !.misses = @ + 1], returned |-> PyNone]

\* SimpleCache.get: the cache after the call, and what the call returned
cache_get(self, key, t) ==
    IF key \in DOMAIN self.cache /\ ~is_expired(self.cache[key], t)
    THEN [self |-> [self EXCEPT !.hits = @ + 1], returned |-> self.cache[key].data]
    ELSE [self |-> [self EXCEPT !.cache = Without(@, key), !.misses = @ + 1],
          returned |-> PyNone]

\* SimpleCache.set
cache_set(self, key, value, ttl_seconds, t) ==
    [self EXCEPT !.cache = (key :> CacheEntry(value, ttl_seconds, t)) @@ @]

\* SimpleCache.invalidate
invalidate(self, key) == [self EXCEPT !.cache = Without(@, key)]

\* SimpleCache.clear
clear(self) == [cache |-> <<>>, hits |-> 0, misses |-> 0]

\* SimpleCache.cleanup_expired
cleanup_expired(self, t) ==
    [self EXCEPT !.cache =
        [k \in {x \in DOMAIN self.cache : ~is_expired(self.cache[x], t)} |->
            self.cache[k]]]

\* SimpleCache.get_stats, without the hit rate
get_stats(self) ==
    [hits |-> self.hits, misses |-> self.misses,
     total_requests |-> self.hits + self.misses,
     cached_items |-> Cardinality(DOMAIN self.cache)]

\* keys a caller of the SimpleCache passes, and the <<value, ttl_seconds>> it sets
CacheKeys == {<<"a">>, <<"b">>}
CacheSettings == {<<PyStr(<<"v">>), 0>>, <<PyStr(<<"v">>), 1>>, <<PyNone, 1>>}

\* one call on the SimpleCache, as the log keeps it
Logged(op, key, value, ttl, returned) ==
    [op |-> op, key |-> key, value |-> value, ttl |-> ttl, at |-> now_s,
     returned |-> returned]

CacheGet(key) ==
    /\ Len(oplog) < MaxOps
    /\ LET r == cache_get(simple_cache, key, now_s)
       IN /\ simple_cache' = r.self
          /\ oplog' = Append(oplog, Logged("get", key, PyNone, 0, r.returned))
    /\ UNCHANGED <<now_s, calls, requests, retry>>
    /\ UNCHANGED <<orch_vars, parser_vars, record_vars, loop_vars>>

CacheSet(key, value, ttl_seconds) ==
    /\ Len(oplog) < MaxOps
    /\ simple_cache' = cache_set(simple_cache, key, value, ttl_seconds, now_s)
    /\ oplog' = Append(oplog, Logged("set", key, value, ttl_seconds, PyNone))
    /\ UNCHANGED <<now_s, calls, requests, retry>>
    /\ UNCHANGED <<orch_vars, parser_vars, record_vars, loop_vars>>

CacheInvalidate(key) ==
    /\ Len(oplog) < MaxOps
    /\ simple_cache' = invalidate(simple_cache, key)
    /\ oplog' = Append(oplog, Logged("invalidate", key, PyNone, 0, PyNone))
    /\ UNCHANGED <<now_s, calls, requests, retry>>
    /\ UNCHANGED <<orch_vars, parser_vars, record_vars, loop_vars>>

CacheClear ==
    /\ Len(oplog) < MaxOps
    /\ simple_cache' = clear(simple_cache)
    /\ oplog' = Append(oplog, Logged("clear", <<>>, PyNone, 0, PyNone))
    /\ UNCHANGED <<now_s, calls, requests, retry>>
    /\ UNCHANGED <<orch_vars, parser_vars, record_vars, loop_vars>>

CacheCleanupExpired ==
    /\ Len(oplog) < MaxOps
    /\ simple_cache' = cleanup_expired(simple_cache, now_s)
    /\ oplog' = Append(oplog, Logged("cleanup_expired", <<>>, PyNone, 0, PyNone))
    /\ UNCHANGED <<now_s, calls, requests, retry>>
    /\ UNCHANGED <<orch_vars, parser_vars, record_vars, loop_vars>>

\* a second passes
TickSecond ==
    /\ now_s < MaxTime
    /\ now_s' = now_s + 1
    /\ UNCHANGED <<simple_cache, oplog, calls, requests, retry>>
    /\ UNCHANGED <<orch_vars, parser_vars, record_vars, loop_vars>>

----------------------------------------------------------------------------
(* cache_utils.py: the decorator cached *)

\* str(n) for a natural number
RECURSIVE Decimal(_)
Decimal(n) ==
    IF n < 10 THEN <<Digits[n + 1]>> ELSE Decimal(n \div 10) \o <<Digits[(n % 10) + 1]>>

\* str(args): a tuple of integers, "(5,)" or "(5, 10)"
RECURSIVE StrTupleItems(_, _)
StrTupleItems(posargs, i) ==
    IF i > Len(posargs) THEN <<>>
    ELSE (IF i > 1 THEN <<",", " ">> ELSE <<>>) \o Decimal(posargs[i])
            \o StrTupleItems(posargs, i + 1)
StrArgs(posargs) ==
    <<"(">> \o StrTupleItems(posargs, 1) \o (IF Len(posargs) = 1 THEN <<",">> ELSE <<>>)
        \o <<")">>

\* str(sorted(kwargs.items())) for the keyword arguments of the model, which
\* have the one name y: "[('y', 10)]"
StrItems(kwargs) ==
    <<"[", "(", "'", "y", "'", ",", " ">> \o Decimal(kwargs["y"]) \o <<")", "]">>

\* hash() of a str: a number the text determines. (CPython computes another
\* function, which differs from process to process.)
HashAlphabet == <<"(", ")", ",", " ", "[", "]", "'", "y", "0", "1", "2", "3", "4", "5", "6", "7", "8", "9">>
Code(ch) == CHOOSE i \in 1..Len(HashAlphabet) : HashAlphabet[i] = ch
RECURSIVE HashFrom(_, _, _)
HashFrom(text, i, h) ==
    IF i > Len(text) THEN h
    ELSE HashFrom(text, i + 1, (h * 31 + Code(text[i])) % 1000003)
hash(text) == HashFrom(text, 1, 7)

\* a decorated function: its __name__ and the arguments of the decorator
Cached(name, key_prefix, ttl_seconds) ==
    [name |-> name, key_prefix |-> key_prefix, ttl_seconds |-> ttl_seconds]

\* cache_key = f"{key_prefix}{func.__name__}", then f"_{hash(str(args))}" if
\* args and f"_{hash(str(sorted(kwargs.items())))}" if kwargs
cache_key(func, posargs, kwargs) ==
    func.key_prefix \o func.name
        \o (IF posargs # <<>> THEN <<"_">> \o Decimal(hash(StrArgs(posargs))) ELSE <<>>)
        \o (IF kwargs # <<>> THEN <<"_">> \o Decimal(hash(StrItems(kwargs))) ELSE <<>>)

\* how a call ends: it returns a value or raises an exception
Returns(value) == [raised |-> FALSE, value |-> value, exc |-> ""]
Raises(exc) == [raised |-> TRUE, value |-> PyNone, exc |-> exc]

\* wrapper(*args, **kwargs) of a decorated function whose body, if it is
\* executed, ends as `body`: the cache afterwards, whether the body was
\* executed, and how the call ends
wrapper(self, func, posargs, kwargs, body, t) ==
    LET cache_key_ == cache_key(func, posargs, kwargs)
        got == cache_get(self, cache_key_, t)
    IN IF got.returned # PyNone
       THEN [self |-> got.self, executed |-> FALSE, ends |-> Returns(got.returned)]
       ELSE IF body.raised
       THEN [self |-> got.self, executed |-> TRUE, ends |-> body]
       ELSE [self |-> cache_set(got.self, cache_key_, body.value, func.ttl_seconds, t),
             executed |-> TRUE, ends |-> body]

\* the calls of SimpleCache.get and SimpleCache.set that wrapper makes
WrapperOps(func, posargs, kwargs, w) ==
    <<Logged("get", cache_key(func, posargs, kwargs), PyNone, 0,
             IF w.executed THEN PyNone ELSE w.ends.value)>>
    \o (IF w.executed /\ ~w.ends.raised
        THEN <<Logged("set", cache_key(func, posargs, kwargs), w.ends.value,
                      func.ttl_seconds, PyNone)>>
        ELSE <<>>)

\* one finished call of a decorated function, as the log keeps it; seq is the
\* place of its SimpleCache.get in the log of the cache, outcome what the
\* request of the body met
Called(func, posargs, kwargs, w, outcome) ==
    [func |-> func, args |-> posargs, kwargs |-> kwargs, at |-> now_s,
     seq |-> Len(oplog) + 1, executed |-> w.executed, returned |-> w.ends.value,
     raised |-> w.ends.exc, outcome |-> outcome]

\* decorated functions, and the arguments they are called with
DecoratedFunctions ==
    {Cached(<<"f">>, <<>>, 1), Cached(<<"g">>, <<"c", "_">>, 1)}
CallArguments ==
    {<<<<5>>, <<>>>>, <<<<10>>, <<>>>>, <<<<5>>, "y" :> 10>>}
\* what the body of a decorated function returns
Results == {PyInt(10), PyNone}

\* A call func(*args, **kwargs) of a decorated function.
CallCached(func, posargs, kwargs) ==
    /\ Len(calls) < MaxCalls
    /\ \E res \in Results :
          LET w == wrapper(simple_cache, func, posargs, kwargs, Returns(res), now_s)
          IN /\ simple_cache' = w.self
             /\ calls' = Append(calls, Called(func, posargs, kwargs, w, "none"))
             /\ oplog' = oplog \o WrapperOps(func, posargs, kwargs, w)
    /\ UNCHANGED <<now_s, requests, retry>>
    /\ UNCHANGED <<orch_vars, parser_vars, record_vars, loop_vars>>

----------------------------------------------------------------------------
(* api_client.py *)

MAX_RETRIES == 3
RETRY_BACKOFF_FACTOR == 2
CACHE_TTL == 900

\* the exceptions retry_on_failure catches and retries on, and others
Retryable == {"APIConnectionError", "APITimeoutError"}
NotRetryable == {"APIResponseError", "ValueError"}

RECURSIVE Pow(_, _)
Pow(b, n) == IF n = 0 THEN 1 ELSE b * Pow(b, n - 1)

\* wrapper(*args, **kwargs) of retry_on_failure as the call begins: attempt
\* is the loop variable, caught the exceptions the loop has caught
\* (last_exception is the last of them), slept the seconds of time.sleep
Started(func, max_retries, backoff_factor) ==
    [state |-> "running", func |-> func, max_retries |-> max_retries,
     backoff_factor |-> backoff_factor, attempt |-> 0, invocations |-> 0,
     caught |-> <<>>, slept |-> 0, ends |-> Returns(PyNone)]

\* no wrapped call is in progress
NoCall == [Started(<<>>, 0, 0) EXCEPT !.state = "idle"]

\* Handle with every exception caught and retried on
Handle_RetriesEverything(call, r) ==
    IF ~r.raised
    THEN [call EXCEPT !.invocations = @ + 1, !.state = "returned", !.ends = r]
    ELSE [call EXCEPT !.invocations = @ + 1,
                      !.caught = Append(@, r.exc),
                      !.attempt = @ + 1,
                      !.slept = IF call.attempt < call.max_retries - 1
                                THEN @ + Pow(call.backoff_factor, call.attempt)
                                ELSE @]

\* One pass of `for attempt in range(max_retries)` in which func ends as r:
\* return, or catch a retryable exception, sleep unless this was the last
\* attempt, and go on, or let any other exception through.
Handle(call, r) ==
    IF ~r.raised
    THEN [call EXCEPT !.invocations = @ + 1, !.state = "returned", !.ends = r]
    ELSE IF r.exc \in Retryable
    THEN [call EXCEPT !.invocations = @ + 1,
                      !.caught = Append(@, r.exc),
                      !.attempt = @ + 1,
                      !.slept = IF call.attempt < call.max_retries - 1
                                THEN @ + Pow(call.backoff_factor, call.attempt)
                                ELSE @]
    ELSE [call EXCEPT !.invocations = @ + 1, !.state = "raised", !.ends = r]

\* a function under retry_on_failure alone, and how a call of it can end
PlainFunction == <<"f">>
PlainEnds ==
    {Returns(PyInt(10)), Returns(PyNone)} \cup {Raises(e) : e \in Retryable \cup NotRetryable}

\* the loop body of retry_on_failure's wrapper, on a function that is not cached
RetryAttempt ==
    /\ retry.state = "running"
    /\ retry.attempt < retry.max_retries
    /\ retry.func = PlainFunction
    /\ \E r \in PlainEnds : retry' = Handle(retry, r)
    /\ UNCHANGED cache_vars
    /\ UNCHANGED <<orch_vars, parser_vars, record_vars, loop_vars>>

\* after the loop: `if last_exception: raise last_exception`, else the
\* wrapper ends and returns None
RetryExhausted ==
    /\ retry.state = "running"
    /\ retry.attempt >= retry.max_retries
    /\ retry' = IF retry.caught # <<>>
                THEN [retry EXCEPT !.state = "raised",
                                   !.ends = Raises(retry.caught[Len(retry.caught)])]
                ELSE [retry EXCEPT !.state = "returned", !.ends = Returns(PyNone)]
    /\ UNCHANGED cache_vars
    /\ UNCHANGED <<orch_vars, parser_vars, record_vars, loop_vars>>

\* what requests.get and the response give _make_api_request
ApiOutcomes ==
    {"list", "dict", "success_false", "status_500", "Timeout", "ConnectionError"}

\* _make_api_request: (success, data, error)
make_api_request(outcome) ==
    CASE outcome = "list" -> <<TRUE, PyList(<<"m">>), "">>
      [] outcome = "dict" -> <<TRUE, <<"dict", <<>>>>, "">>
      [] outcome = "success_false" -> <<FALSE, PyNone, "APIResponseError">>
      [] outcome = "status_500" -> <<FALSE, PyNone, "APIResponseError">>
      [] outcome = "Timeout" -> <<FALSE, PyNone, "APITimeoutError">>
      [] outcome = "ConnectionError" -> <<FALSE, PyNone, "APIConnectionError">>

\* get_latest_server_metrics raising the error of a failed request
get_latest_server_metrics_Raises(outcome) ==
    LET r == make_api_request(outcome)
    IN IF r[1] /\ TypeOf(r[2]) = "list" THEN Returns(r[2])
       ELSE IF r[1] THEN Returns(PyList(<<>>)) ELSE Raises(r[3])

\* the body of get_latest_server_metrics
get_latest_server_metrics(outcome) ==
    LET r == make_api_request(outcome)
    IN IF r[1] /\ TypeOf(r[2]) = "list" THEN Returns(r[2]) ELSE Returns(PyList(<<>>))

\* @cached(ttl_seconds=CACHE_TTL, key_prefix="server_metrics_")
ServerMetrics ==
    Cached(<<"g", "e", "t", "_", "l", "a", "t", "e", "s", "t", "_", "s", "e", "r", "v", "e", "r", "_", "m", "e", "t", "r", "i", "c", "s">>,
           <<"s", "e", "r", "v", "e", "r", "_", "m", "e", "t", "r", "i", "c", "s", "_">>, CACHE_TTL)

\* a call of get_latest_server_metrics begins: @retry_on_failure()
StartFetch ==
    /\ retry.state # "running"
    /\ Len(calls) < MaxCalls
    /\ retry' = Started(ServerMetrics.name, MAX_RETRIES, RETRY_BACKOFF_FACTOR)
    /\ UNCHANGED cache_vars
    /\ UNCHANGED <<orch_vars, parser_vars, record_vars, loop_vars>>

\* the loop body of retry_on_failure's wrapper around the cached
\* get_latest_server_metrics: the cached wrapper runs, and the body, if it is
\* executed, issues one request
FetchAttempt ==
    /\ retry.state = "running"
    /\ retry.attempt < retry.max_retries
    /\ retry.func = ServerMetrics.name
    /\ \E outcome \in ApiOutcomes :
          LET w == wrapper(simple_cache, ServerMetrics, <<>>, <<>>,
                           get_latest_server_metrics(outcome), now_s)
          IN /\ simple_cache' = w.self
             /\ requests' = IF w.executed THEN requests + 1 ELSE requests
             /\ calls' = Append(calls, Called(ServerMetrics, <<>>, <<>>, w,
                                              IF w.executed THEN outcome ELSE "none"))
             /\ oplog' = oplog \o WrapperOps(ServerMetrics, <<>>, <<>>, w)
             /\ retry' = Handle(retry, w.ends)
    /\ UNCHANGED now_s
    /\ UNCHANGED <<orch_vars, parser_vars, record_vars, loop_vars>>

\* trigger_dashboard_refresh: invalidate_all_caches() clears the SimpleCache
\* (the health check that follows goes to another endpoint)
ManualRefresh ==
    /\ oplog # <<>>
    /\ oplog[Len(oplog)].op # "clear"
    /\ simple_cache' = clear(simple_cache)
    /\ oplog' = Append(oplog, Logged("clear", <<>>, PyNone, 0, PyNone))
    /\ UNCHANGED <<now_s, calls, requests, retry>>
    /\ UNCHANGED <<orch_vars, parser_vars, record_vars, loop_vars>>

\* half of CACHE_TTL passes
TickHalfTtl ==
    /\ now_s <= CACHE_TTL
    /\ now_s' = now_s + CACHE_TTL \div 2
    /\ UNCHANGED <<simple_cache, oplog, calls, requests, retry>>
    /\ UNCHANGED <<orch_vars, parser_vars, record_vars, loop_vars>>


----------------------------------------------------------------------------
(* backend.py: main_continuous *)

data_collection_interval == 15

user_disk_data_interval == 1 * ((60 * 24) \div data_collection_interval)

retention_cleanup_interval == 7 * ((60 * 24) \div data_collection_interval)

\* One call of run_single_collection_cycle: its two arguments, and whether
\* the call is a cycle of the `while True` loop or the initial call.
Cycle(collect_disk_usage, run_cleanup, in_loop) ==
    [collect_disk_usage |-> collect_disk_usage,
     run_cleanup |-> run_cleanup,
     in_loop |-> in_loop]

\* main_continuous up to the loop: the counters start at 0 and the initial
\* cycle runs the cleanup without the disk usage.
MainContinuousStart ==
    /\ main_pc = "start"
    /\ disk_data_counter' = 0
    /\ cleanup_counter' = 0
    /\ cycles' = <<Cycle(FALSE, TRUE, FALSE)>>
    /\ main_pc' = "loop"
    /\ UNCHANGED <<cache_vars, retry>>
    /\ UNCHANGED <<orch_vars, parser_vars, record_vars>>

\* One cycle of the loop, from the counter tests to the end of the sleep.
\* run_single_collection_cycle catches every exception, so the loop goes on
\* whatever happens to the servers.
LoopCycle ==
    /\ main_pc = "loop"
    /\ Len(cycles) <= MaxCycles
    /\ LET collect_disk_usage == disk_data_counter >= user_disk_data_interval
           run_cleanup == cleanup_counter >= retention_cleanup_interval
       IN  /\ disk_data_counter' = IF collect_disk_usage
                                     THEN 0
                                     ELSE disk_data_counter + 1
           /\ cleanup_counter' = IF run_cleanup
                                   THEN 0
                                   ELSE cleanup_counter + 1
           /\ cycles' = Append(cycles,
                               Cycle(collect_disk_usage, run_cleanup, TRUE))
    /\ UNCHANGED main_pc
    /\ UNCHANGED <<cache_vars, retry>>
    /\ UNCHANGED <<orch_vars, parser_vars, record_vars>>

LoopIdle ==
    /\ main_pc = "start"
    /\ disk_data_counter = 0
    /\ cleanup_counter = 0
    /\ cycles = <<>>

CacheIdle ==
    /\ now_s = 0
    /\ simple_cache = SimpleCache
    /\ oplog = <<>>
    /\ calls = <<>>
    /\ requests = 0

ServiceIdle ==
    /\ CacheIdle
    /\ retry = NoCall
    /\ LoopIdle

----------------------------------------------------------------------------
(* Specifications *)

TargetChoices == {{"all"}} \cup SUBSET TargetNames

\* no run has ended yet
NoRun == [ran |-> FALSE, tree |-> <<>>, generated_at |-> <<>>]

OrchIdle ==
    /\ pc = "idle"
    /\ args = [summary |-> FALSE, validate_only |-> FALSE, target |-> {"all"}]
    /\ file = None
    /\ schema = None
    /\ errors = <<>>
    /\ gen_idx = 0
    /\ invoked = [t \in TargetNames |-> 0]
    /\ raised = {}
    /\ success = TRUE
    /\ generated_files = <<>>
    /\ written = {}
    /\ exit_status = -1
    /\ tree = <<>>
    /\ clock = 1
    /\ run = 1
    /\ prev = NoRun

ParserIdle ==
    /\ bash_output = <<>>
    /\ bash_fields = <<>>
    /\ parser = "idle"
    /\ result = <<>>

RecordIdle ==
    /\ cls = <<>>
    /\ instance = <<>>
    /\ as_dict = <<>>
    /\ restored = None
    /\ rpc = "idle"

\* The process as main() starts: the command line and the schema file are given.
Init ==
    /\ pc = "start"
    /\ args \in [summary : BOOLEAN, validate_only : BOOLEAN, target : TargetChoices]
    /\ file \in {None} \cup {Some(d) : d \in OrchDocuments}
    /\ schema = None
    /\ errors = <<>>
    /\ gen_idx = 0
    /\ invoked = [t \in TargetNames |-> 0]
    /\ raised = {}
    /\ success = TRUE
    /\ generated_files = <<>>
    /\ written = {}
    /\ exit_status = -1
    /\ tree = <<>>
    /\ clock = 1
    /\ run = 1
    /\ prev = NoRun
    /\ ParserIdle
    /\ RecordIdle
    /\ ServiceIdle

Next ==
    \/ LoadSchema
    \/ ShowSummary
    \/ MainValidate
    \/ ValidateOnlyReturn
    \/ StartGenerate
    \/ RunGenerator
    \/ FinishGenerate

Spec == Init /\ [][Next]_vars

\* The validator alone, on every document of ValidatorDocuments.
InitValidate ==
    /\ pc = "start"
    /\ args = [summary |-> FALSE, validate_only |-> TRUE, target |-> {"all"}]
    /\ file \in {Some(d) : d \in ValidatorDocuments}
    /\ schema = None
    /\ errors = <<>>
    /\ gen_idx = 0
    /\ invoked = [t \in TargetNames |-> 0]
    /\ raised = {}
    /\ success = TRUE
    /\ generated_files = <<>>
    /\ written = {}
    /\ exit_status = -1
    /\ tree = <<>>
    /\ clock = 1
    /\ run = 1
    /\ prev = NoRun
    /\ ParserIdle
    /\ RecordIdle
    /\ ServiceIdle

NextValidate ==
    \/ LoadSchema
    \/ MainValidate
    \/ ValidateOnlyReturn

SpecValidate == InitValidate /\ [][NextValidate]_vars

\* The generated parsers, on every line and block of the bounded inputs.
InitParse ==
    /\ OrchIdle
    /\ RecordIdle
    /\ ServiceIdle
    /\ parser = "none"
    /\ result = <<>>
    /\ \/ /\ bash_output \in Lines \cup {ExampleLine}
          /\ bash_fields \in SingleFields \cup {ServerMetricsBashFields}
       \/ /\ bash_output \in Blocks
          /\ bash_fields \in {TopUsersBashFields, <<BashField("f", 0, "raw")>>,
                              <<BashField("f", 1, "raw")>>}
       \/ /\ bash_output \in TabularBlocks
          /\ bash_fields \in SingleFields

NextParse ==
    \/ ParseServerMetrics
    \/ ParseTopUsers

SpecParse == InitParse /\ [][NextParse]_vars

\* The round trip of the generated dataclasses, on every instance.
InitRecord ==
    /\ OrchIdle
    /\ ParserIdle
    /\ ServiceIdle
    /\ cls \in RecordClasses
    /\ instance \in Instances(cls)
    /\ as_dict = <<>>
    /\ restored = None
    /\ rpc = "new"

NextRecord ==
    \/ ToDict
    \/ FromDict

SpecRecord == InitRecord /\ [][NextRecord]_vars

\* The generators run on their own, on every document of GeneratorDocuments.
InitArtifacts ==
    /\ pc = "standalone"
    /\ args = [summary |-> FALSE, validate_only |-> FALSE, target |-> {"all"}]
    /\ file \in {Some(d) : d \in GeneratorDocuments}
    /\ schema = None
    /\ errors = <<>>
    /\ gen_idx = 0
    /\ invoked = [t \in TargetNames |-> 0]
    /\ raised = {}
    /\ success = TRUE
    /\ generated_files = <<>>
    /\ written = {}
    /\ exit_status = -1
    /\ tree = <<>>
    /\ clock = Len(Instants)
    /\ run = 1
    /\ prev = NoRun
    /\ ParserIdle
    /\ RecordIdle
    /\ ServiceIdle

NextArtifacts == \E t \in StandaloneTargets : StandaloneMain(t)

SpecArtifacts == InitArtifacts /\ [][NextArtifacts]_vars

\* the generators whose type mapping is modelled, run on their own
SqlTargets == {"sql", "python", "typescript"}

\* The storage, record and interface generators run on their own, on every
\* document of SqlDocuments.
InitSql ==
    /\ pc = "standalone"
    /\ args = [summary |-> FALSE, validate_only |-> FALSE, target |-> {"all"}]
    /\ file \in {Some(d) : d \in SqlDocuments}
    /\ schema = None
    /\ errors = <<>>
    /\ gen_idx = 0
    /\ invoked = [t \in TargetNames |-> 0]
    /\ raised = {}
    /\ success = TRUE
    /\ generated_files = <<>>
    /\ written = {}
    /\ exit_status = -1
    /\ tree = <<>>
    /\ clock = Len(Instants)
    /\ run = 1
    /\ prev = NoRun
    /\ ParserIdle
    /\ RecordIdle
    /\ ServiceIdle

NextSql == \E t \in SqlTargets : StandaloneMain(t)

SpecSql == InitSql /\ [][NextSql]_vars

\* A SimpleCache from its construction on, under any calls and passing time.
InitCache ==
    /\ OrchIdle
    /\ ParserIdle
    /\ RecordIdle
    /\ ServiceIdle

NextCache ==
    \/ \E key \in CacheKeys : CacheGet(key)
    \/ \E key \in CacheKeys, s \in CacheSettings : CacheSet(key, s[1], s[2])
    \/ \E key \in CacheKeys : CacheInvalidate(key)
    \/ CacheClear
    \/ CacheCleanupExpired
    \/ TickSecond

SpecCache == InitCache /\ [][NextCache]_vars

\* Decorated functions called over a fresh SimpleCache, under passing time.
InitCached ==
    /\ OrchIdle
    /\ ParserIdle
    /\ RecordIdle
    /\ ServiceIdle

NextCached ==
    \/ \E func \in DecoratedFunctions, a \in CallArguments : CallCached(func, a[1], a[2])
    \/ TickSecond

SpecCached == InitCached /\ [][NextCached]_vars

\* One call of a function under retry_on_failure(max_retries, backoff_factor),
\* from its beginning. The function returns or raises in finite time and
\* time.sleep ends, so the wrapper goes on as long as it can.
InitRetry ==
    /\ OrchIdle
    /\ ParserIdle
    /\ RecordIdle
    /\ CacheIdle
    /\ LoopIdle
    /\ retry \in {Started(PlainFunction, m, b) :
                     m \in 0..MAX_RETRIES, b \in {1, RETRY_BACKOFF_FACTOR}}

NextRetry == RetryAttempt \/ RetryExhausted

SpecRetry == InitRetry /\ [][NextRetry]_vars /\ WF_vars(NextRetry)

\* The dashboard calling get_latest_server_metrics over a fresh cache, with
\* manual refreshes and passing time.
InitFetch ==
    /\ OrchIdle
    /\ ParserIdle
    /\ RecordIdle
    /\ ServiceIdle

NextFetch == StartFetch \/ FetchAttempt \/ ManualRefresh \/ TickHalfTtl

SpecFetch == InitFetch /\ [][NextFetch]_vars

\* The collection service started in continuous mode.
InitLoop ==
    /\ OrchIdle
    /\ ParserIdle
    /\ RecordIdle
    /\ ServiceIdle

NextLoop == MainContinuousStart \/ LoopCycle

SpecLoop == InitLoop /\ [][NextLoop]_vars

\* The program run again after a successful run, on a valid document.
RegenDocuments ==
    {[version |-> "1.0.0",
      server_metrics |-> Entity(<<PlainField, BashField("a", 0, "raw")>>),
      top_users |-> Entity(<<PlainField>>)],
     [version |-> "1.0.0",
      server_metrics |-> Entity(<<GenField(1, "primary_key" :> TRUE),
                                  GenField(2, "validation" :> [type |-> "string"])>>),
      top_users |-> Entity(<<GenField(1, <<>>)>>)]}

InitRegen ==
    /\ pc = "start"
    /\ args \in [summary : {FALSE}, validate_only : {FALSE},
                  target : {{"all"}, {"sql"}, {"python", "docs"}}]
    /\ file \in {Some(d) : d \in RegenDocuments}
    /\ schema = None
    /\ errors = <<>>
    /\ gen_idx = 0
    /\ invoked = [t \in TargetNames |-> 0]
    /\ raised = {}
    /\ success = TRUE
    /\ generated_files = <<>>
    /\ written = {}
    /\ exit_status = -1
    /\ tree = <<>>
    /\ clock = 1
    /\ run = 1
    /\ prev = NoRun
    /\ ParserIdle
    /\ RecordIdle
    /\ ServiceIdle

NextRegen ==
    \/ LoadSchema
    \/ MainValidate
    \/ StartGenerate
    \/ RunGenerator
    \/ FinishGenerate
    \/ Regenerate

SpecRegen == InitRegen /\ [][NextRegen]_vars

----------------------------------------------------------------------------
(* Properties of the orchestrator *)

AnyGeneratorActed ==
    \/ \E t \in TargetNames : invoked[t] > 0
    \/ written # {}
    \/ generated_files # <<>>

\* C1: no generator is invoked and no file is written unless the schema was
\* loaded, validate_schema found no error in it and --validate-only was not
\* given; a load failure or a validation error ends the process with a nonzero
\* status, and --validate-only ends it after validation, all with no
\* generator invoked.
C1_GenerationOnlyAfterValidation ==
    /\ AnyGeneratorActed =>
          /\ file # None
          /\ schema # None
          /\ validate_schema(schema.val) = <<>>
          /\ ~args.validate_only
    /\ (pc = "exited" /\ file = None) => (exit_status # 0 /\ ~AnyGeneratorActed)
    /\ (pc = "exited" /\ schema # None /\ ~args.summary
            /\ validate_schema(schema.val) # <<>>) =>
          (exit_status # 0 /\ ~AnyGeneratorActed)
    /\ (pc = "exited" /\ args.validate_only) => ~AnyGeneratorActed

\* a run that validation stopped: errors found, status 1, nothing generated
C1_Witness ==
    /\ pc = "exited"
    /\ schema # None
    /\ ~args.summary
    /\ errors # <<>>
    /\ exit_status = 1
    /\ ~AnyGeneratorActed

\* C2: once generation has started, the generator of every selected target is
\* called exactly once when its block is passed, whatever the generators before
\* it did (none is called twice, none is left out, a target not selected is
\* never called), and generate_all ends only behind the last block.
C2_EverySelectedGeneratorRunsOnce ==
    /\ \A i \in 1..Len(TargetOrder) :
          invoked[TargetOrder[i]] =
              IF gen_idx > i /\ TargetOrder[i] \in SelectedTargets(args) THEN 1 ELSE 0
    /\ (pc = "exited" /\ gen_idx > 0) => gen_idx = Len(TargetOrder) + 1

\* the first generator raised and the last one was still called
C2_Witness ==
    /\ pc = "exited"
    /\ "sql" \in raised
    /\ invoked["docs"] = 1
    /\ invoked["parsers"] = 1

\* C3: generate_all returns True, and the process exits with 0, exactly when no
\* selected generator raised.
C3_SuccessIffNoGeneratorRaised ==
    /\ pc = "generating" => (success <=> raised = {})
    /\ (pc = "exited" /\ gen_idx > 0) =>
          /\ success <=> raised = {}
          /\ exit_status = 0 <=> raised = {}
          /\ exit_status \in {0, 1}

\* one generator raised, every later one succeeded, and the status is 1
C3_Witness ==
    /\ pc = "exited"
    /\ raised = {"sql"}
    /\ SelectedTargets(args) = TargetNames
    /\ exit_status = 1
    /\ ~success

\* C18: validation and the generators leave the loaded document as the loader
\* returned it: once loaded, the document (every entity, every field, the
\* generation timestamp) never changes, whether generators succeed or raise,
\* and its sections are those of the schema file.
C18_SchemaUnchangedAfterLoad ==
    /\ [](schema # None =>
            /\ \A k \in DOMAIN file.val : schema.val[k] = file.val[k]
            /\ DOMAIN schema.val = DOMAIN file.val \cup {"generated_at"})
    /\ [][schema # None => schema' = schema]_vars

\* a run in which generators wrote files and one raised, ended with the
\* document still stamped with the instant of loading although the clock has
\* been read again since
C18_Witness ==
    /\ pc = "exited"
    /\ gen_idx > Len(TargetOrder)
    /\ raised # {}
    /\ written # {}
    /\ clock > 1
    /\ schema = Some(("generated_at" :> isoformat(Instants[1])) @@ file.val)

\* the files of the output tree agree except for the generation timestamp
SameButTimestamp(a, b) ==
    /\ a.body = b.body
    /\ a.header.title = b.header.title
    /\ a.header.version = b.header.version
    /\ a.header.notice = b.header.notice

\* C19: a second successful run on the unmodified document, with the same
\* targets, leaves in the output tree exactly the paths the first run left (it
\* adds no file), each file as before except for the generation timestamp.
C19_RegenerationOverwrites ==
    (pc = "exited" /\ prev.ran /\ gen_idx > 0 /\ exit_status = 0) =>
        /\ DOMAIN tree = DOMAIN prev.tree
        /\ \A p \in DOMAIN tree : SameButTimestamp(tree[p], prev.tree[p])

\* the header tells that the file is generated
Marked(header) ==
    \/ header.notice # None
    \/ header.title \in {"Generated models", "Quick Reference Guide"}

\* C20: every file a generator has written in this run carries, in its header,
\* the version of the document and the generation timestamp assigned at load
\* time, and is marked as generated.
C20_EveryFileStamped ==
    schema # None =>
        \A p \in written :
            /\ tree[p].header.version = Some(schema.val["version"])
            /\ tree[p].header.generated_at = Some(schema.val["generated_at"])
            /\ Marked(tree[p].header)

\* C21: when generate_all has ended, the list it reports holds exactly the
\* paths of the files written during the run, those of a generator that raised
\* after writing included, and no path that was not written.
C21_ReportedExactlyWritten ==
    (pc = "exited" /\ gen_idx > Len(TargetOrder)) =>
        Range(generated_files) = written

----------------------------------------------------------------------------
(* Properties of validate_schema *)

\* two fields of the list declare the same (bash_index, bash_format) pair
HasRepeatedPair(fields) ==
    \E i, j \in 1..Len(fields) :
        /\ i < j
        /\ DeclaresBashIndex(fields[i])
        /\ DeclaresBashIndex(fields[j])
        /\ BashKey(fields[i]) = BashKey(fields[j])

\* the error was raised on a field of the entity
ErrorOfEntity(err, entity) ==
    IF entity = "top_users" THEN err.msg = "Invalid field in top_users"
    ELSE err.msg \in {"Field missing 'name' property", "Field missing 'type' property",
                      "Duplicate bash_index"}

\* C4: for server_metrics and top_users alike, a repeated
\* (source_index, source_format) pair among the entity's fields makes
\* validate_schema return at least one error on that entity.
C4_RepeatedPairRejected ==
    (pc \in {"validated", "exited"} /\ schema # None /\ ~args.summary) =>
        \A entity \in {"server_metrics", "top_users"} \cap DOMAIN schema.val :
            HasRepeatedPair(Get(schema.val[entity], "fields", <<>>)) =>
                \E i \in 1..Len(errors) : ErrorOfEntity(errors[i], entity)

\* validate_schema has run on the loaded document
Validated_Schema == pc \in {"validated", "exited"} /\ schema # None /\ ~args.summary

EntityFields(entity) ==
    IF entity \in DOMAIN schema.val THEN Get(schema.val[entity], "fields", <<>>) ELSE <<>>

\* the missing sections, names and types of the loaded document
MissingSections == {k \in Range(required_keys) : k \notin DOMAIN schema.val}
MissingProperties ==
    {<<entity, i, k>> \in {"server_metrics", "top_users"} \X (1..(MaxFields + 1))
                            \X {"name", "type"} :
        i <= Len(EntityFields(entity)) /\ k \notin DOMAIN EntityFields(entity)[i]}

\* C16: validate_schema reports every violation in one pass: the errors hold
\* one finding for every missing section, every missing name and every missing
\* type, the name and the type of one and the same field both included.
C16_EveryDefectReported ==
    Validated_Schema =>
        Len(errors) >= Cardinality(MissingSections) + Cardinality(MissingProperties)

\* C17: in either entity, a field whose name or type is the empty text makes
\* validate_schema report an error on that entity, as a field without the key
\* does.
C17_EmptyNameOrTypeRejected ==
    Validated_Schema =>
        \A entity \in {"server_metrics", "top_users"} :
            (\E i \in 1..Len(EntityFields(entity)) :
                LET f == EntityFields(entity)[i]
                IN \/ "name" \in DOMAIN f /\ f["name"] = ""
                   \/ "type" \in DOMAIN f /\ f["type"] = "")
            => \E e \in 1..Len(errors) : ErrorOfEntity(errors[e], entity)

----------------------------------------------------------------------------
(* Properties of the generated dataclasses *)

AllPresent(inst) == \A k \in DOMAIN inst : TypeOf(inst[k]) # "NoneType"

\* C5: for every record type and every instance with all attributes present,
\* datetime attributes included, from_dict(to_dict(instance)) == instance.
C5_RoundTrip ==
    (rpc = "restored" /\ AllPresent(instance)) =>
        /\ restored # None
        /\ InstanceEq(restored.val, instance)

----------------------------------------------------------------------------
(* Properties of the generated parsers *)

\* text before / after the first occurrence of ch (the whole text without one)
FirstIndex(s, ch) == CHOOSE i \in 1..Len(s) : s[i] = ch /\ \A j \in 1..(i - 1) : s[j] # ch
BeforeFirst(s, ch) == IF Contains(s, ch) THEN SubSeq(s, 1, FirstIndex(s, ch) - 1) ELSE s
AfterFirst(s, ch) ==
    IF Contains(s, ch) THEN SubSeq(s, FirstIndex(s, ch) + 1, Len(s)) ELSE s

\* s from its first to its last character that is not whitespace
Trimmed(s) ==
    LET keep == {i \in 1..Len(s) : s[i] \notin Whitespace}
    IN IF keep = {} THEN <<>>
       ELSE SubSeq(s, CHOOSE i \in keep : \A j \in keep : i <= j,
                      CHOOSE i \in keep : \A j \in keep : i >= j)

\* the positional values of a line
PositionalValues(text) == Split(Trimmed(text), ",")

FieldsWithFormat(fmts) ==
    {i \in 1..Len(bash_fields) : Get(bash_fields[i], "bash_format", "raw") \in fmts}

\* C6: csv_split_N at index i yields the trimmed N-th comma-separated sub-part
\* of positional value i, absent when there is no such sub-part; on the line of
\* the extraction scenarios, index 8 with csv_split_1 yields "0.2".
C6_CsvSplit ==
    parser = "server_metrics" =>
        \A i \in FieldsWithFormat(DOMAIN CsvSplitIndex) :
            LET f == bash_fields[i]
                n == CsvSplitIndex[f["bash_format"]]
                values == PositionalValues(bash_output)
            IN /\ Len(values) > f["bash_index"] =>
                    LET sub == Split(values[f["bash_index"] + 1], ",")
                    IN /\ f["name"] \in DOMAIN result
                       /\ result[f["name"]] =
                              IF Len(sub) > n THEN Some(Trimmed(sub[n + 1])) ELSE None
               /\ (bash_output = ExampleLine /\ f["bash_index"] = 8 /\ n = 1) =>
                    /\ f["name"] \in DOMAIN result
                    /\ result[f["name"]] = Some(<<"0", ".", "2">>)

\* C7: on a value with a '/', part_before_slash yields the text before the
\* first '/' and part_after_slash everything after the first '/', trimmed; on a
\* value without '/', both yield the trimmed value.
C7_SlashRules ==
    parser = "server_metrics" =>
        \A i \in FieldsWithFormat({"part_before_slash", "part_after_slash"}) :
            LET f == bash_fields[i]
                values == PositionalValues(bash_output)
                value == values[f["bash_index"] + 1]
            IN Len(values) > f["bash_index"] =>
                  /\ f["name"] \in DOMAIN result
                  /\ result[f["name"]] =
                        IF f["bash_format"] = "part_before_slash"
                        THEN Some(Trimmed(BeforeFirst(value, "/")))
                        ELSE Some(Trimmed(AfterFirst(value, "/")))

\* s with one trailing ch removed, if it ends in ch
WithoutOneTrailing(s, ch) ==
    IF s # <<>> /\ s[Len(s)] = ch THEN SubSeq(s, 1, Len(s) - 1) ELSE s

\* C8: strip_percent yields the value trimmed and then with exactly one
\* trailing '%' removed, if there is one.
C8_StripPercent ==
    parser = "server_metrics" =>
        \A i \in FieldsWithFormat({"strip_percent"}) :
            LET f == bash_fields[i]
                values == PositionalValues(bash_output)
            IN Len(values) > f["bash_index"] =>
                  /\ f["name"] \in DOMAIN result
                  /\ result[f["name"]] =
                        Some(WithoutOneTrailing(Trimmed(values[f["bash_index"] + 1]), "%"))

\* C9: the result of the parser has an entry, a value or None, for every field
\* with an extraction spec, whatever the line and the format.
C9_EveryFieldHasAnEntry ==
    /\ parser = "server_metrics" =>
          \A i \in 1..Len(bash_fields) :
              /\ bash_fields[i]["name"] \in DOMAIN result
              /\ result[bash_fields[i]["name"]].some \in BOOLEAN
    /\ parser = "top_users" =>
          \A k \in 1..Len(result), i \in 1..Len(bash_fields) :
              /\ bash_fields[i]["name"] \in DOMAIN result[k]
              /\ result[k][bash_fields[i]["name"]].some \in BOOLEAN

\* what the positional shape extracts from the raw positional value `value`
\* under the format fmt
PositionalRule(fmt, value) ==
    LET res == ServerMetricsStatement(<<>>, BashField("v", 0, fmt), <<value>>)
    IN IF "v" \in DOMAIN res THEN res["v"] ELSE None

\* C11: in the tabular shape a field's format selects the extraction rule as
\* in the positional shape: every record holds, for every field whose index is
\* in range, what the positional rule of the field's format gives on the same
\* raw positional value.
C11_TabularFormatRules ==
    parser = "top_users" =>
        LET lines == NonBlank(DataLines(NonBlank(Split(bash_output, "\n"))))
        IN \A k \in 1..Len(result), i \in 1..Len(bash_fields) :
              LET parts == SplitWhitespace(Strip(lines[k]))
                  f == bash_fields[i]
              IN Len(parts) > f["bash_index"] =>
                    /\ f["name"] \in DOMAIN result[k]
                    /\ result[k][f["name"]] =
                          PositionalRule(Get(f, "bash_format", "raw"),
                                         parts[f["bash_index"] + 1])

IsBlank(line) == \A i \in 1..Len(line) : line[i] \in Whitespace

\* the lines of seq at the positions in keep, in order, as records
RECURSIVE RecordsOf(_, _, _)
RecordsOf(seq, keep, i) ==
    IF i > Len(seq) THEN <<>>
    ELSE (IF i \in keep THEN <<parse_top_users_line(bash_fields, seq[i])>> ELSE <<>>)
            \o RecordsOf(seq, keep, i + 1)

\* C10 as stated: the first two lines of the block are the header, and every
\* later line that is a data line (not blank, without '----') gives one record,
\* in input order.
C10_FirstTwoLinesSkipped ==
    parser = "top_users" =>
        LET raw == Split(bash_output, "\n")
            data == {i \in 1..Len(raw) :
                        i > 2 /\ ~IsBlank(raw[i]) /\ ~ContainsText(raw[i], Separator)}
        IN result = RecordsOf(raw, data, 1)

\* one header-label line, one separator line, two data lines
ScenarioBlock ==
    Join(<<<<"a", " ", "b">>, Separator, <<"a">>, <<"a", " ", "b">>>>, "\n")

\* C10, amended: blank lines are dropped first; the first two non-blank lines
\* are the header, and every later non-blank line without '----' gives one
\* record, in input order; the scenario block gives exactly two records.
C10_FirstTwoNonBlankLinesSkipped ==
    parser = "top_users" =>
        LET raw == Split(bash_output, "\n")
            before(i) == Cardinality({j \in 1..(i - 1) : ~IsBlank(raw[j])})
            data == {i \in 1..Len(raw) :
                        /\ ~IsBlank(raw[i])
                        /\ before(i) >= 2
                        /\ ~ContainsText(raw[i], Separator)}
        IN /\ result = RecordsOf(raw, data, 1)
           /\ Len(result) = Cardinality(data)
           /\ bash_output = ScenarioBlock => Len(result) = 2

\* the scenario block parsed: two records, the second of the line "a b"
C10_Witness ==
    /\ parser = "top_users"
    /\ bash_output = ScenarioBlock
    /\ Len(result) = 2
    /\ bash_fields = TopUsersBashFields
    /\ result[2]["username"] = Some(<<"a">>)
    /\ result[2]["cpu_percentage"] = Some(<<"b">>)

----------------------------------------------------------------------------
(* Properties of the generated artifacts *)

PythonPath(key) ==
    Path("Backend/generated/models/", <<>>,
         IF key = "server_metrics" THEN "server_metrics.py" ELSE "top_users.py")
TypesPath == Path("Frontend/generated/", <<>>, "types.ts")
ValidatorsPath == Path("Frontend/generated/", <<>>, "validators.py")
SchemaDocsPath == Path("Docs/generated/", <<>>, "DATABASE_SCHEMA.md")

\* the position of entity key among the entities of the document
TableIndex(key) ==
    CHOOSE i \in 1..Len(PresentTables(file.val, 1)) : PresentTables(file.val, 1)[i] = key

DeclaredFields(key) == file.val[key]["fields"]

\* optional by the rule of the schema: nullable (default true) is true and
\* the field is not a primary key
OptionalByRule(f) ==
    /\ (IF "nullable" \in DOMAIN f THEN f["nullable"] ELSE TRUE) = TRUE
    /\ ~("primary_key" \in DOMAIN f /\ f["primary_key"] = TRUE)

\* C12: for every field of every entity, the record type of the typed-record
\* artifact and the interface of the typed-interface artifact mark the field
\* optional exactly when nullable (default true) is true and the field is not
\* a primary key; both take the same decision.
C12_SameOptionality ==
    \A key \in Range(PresentTables(file.val, 1)) :
        \A i \in 1..Len(DeclaredFields(key)) :
            LET f == DeclaredFields(key)[i]
            IN /\ PythonPath(key) \in DOMAIN tree =>
                    tree[PythonPath(key)].body.attributes[i].optional = OptionalByRule(f)
               /\ TypesPath \in DOMAIN tree =>
                    tree[TypesPath].body.interfaces[TableIndex(key)].properties[i].optional
                        = OptionalByRule(f)

\* both artifacts written for a nullable primary key, optional in neither
C12_Witness ==
    /\ pc = "standalone"
    /\ PythonPath("server_metrics") \in DOMAIN tree
    /\ TypesPath \in DOMAIN tree
    /\ Len(DeclaredFields("server_metrics")) > 0
    /\ LET f == DeclaredFields("server_metrics")[1]
       IN /\ "nullable" \in DOMAIN f /\ f["nullable"]
          /\ "primary_key" \in DOMAIN f /\ f["primary_key"]
    /\ ~tree[PythonPath("server_metrics")].body.attributes[1].optional
    /\ ~tree[TypesPath].body.interfaces[1].properties[1].optional

\* the positions of the fields of entity key that declare a validation
Validated(key) ==
    {i \in 1..Len(DeclaredFields(key)) : "validation" \in DOMAIN DeclaredFields(key)[i]}

\* the validation types the fields of the document use, and the fields using K
UsersOf(K) ==
    {<<key, i>> \in Range(PresentTables(file.val, 1)) \X (1..Len(GenNames)) :
        i \in Validated(key) /\ DeclaredFields(key)[i]["validation"]["type"] = K}
UsedKinds == {K \in DOMAIN PrimitiveParams : UsersOf(K) # {}}

Count(seq, x) == Cardinality({i \in 1..Len(seq) : seq[i] = x})

\* C13: the validators file holds exactly one primitive validator for every
\* validation type that one or more fields of the document use, in one entity
\* or across both, and none for a type no field uses.
C13_OnePrimitivePerKind ==
    ValidatorsPath \in DOMAIN tree =>
        LET primitives == tree[ValidatorsPath].body.primitives
        IN /\ \A K \in DOMAIN PrimitiveParams :
                 Count(primitives, K) = IF K \in UsedKinds THEN 1 ELSE 0
           /\ Range(primitives) \subseteq UsedKinds

\* validators.py written for a document in which a field of each entity uses
\* the type percentage and another type is used too
C13_Witness ==
    /\ pc = "standalone"
    /\ ValidatorsPath \in DOMAIN tree
    /\ Cardinality(UsersOf("percentage")) >= 2
    /\ \E u, v \in UsersOf("percentage") : u[1] # v[1]
    /\ Count(tree[ValidatorsPath].body.primitives, "percentage") = 1
    /\ Cardinality(UsedKinds) >= 2

DeclaredNames(key) ==
    [i \in 1..Len(DeclaredFields(key)) |-> DeclaredFields(key)[i]["name"]]

\* C15: for every entity, the record type, the interface and the column table
\* of the documentation each list the names of all fields of the entity, once
\* each, in the order the document declares them.
C15_FieldOrderKept ==
    \A key \in Range(PresentTables(file.val, 1)) :
        /\ PythonPath(key) \in DOMAIN tree =>
              LET attributes == tree[PythonPath(key)].body.attributes
              IN [i \in 1..Len(attributes) |-> attributes[i].name] = DeclaredNames(key)
        /\ TypesPath \in DOMAIN tree =>
              LET properties == tree[TypesPath].body.interfaces[TableIndex(key)].properties
              IN [i \in 1..Len(properties) |-> properties[i].name] = DeclaredNames(key)
        /\ SchemaDocsPath \in DOMAIN tree =>
              LET rows == tree[SchemaDocsPath].body[TableIndex(key)].rows
              IN [i \in 1..Len(rows) |-> rows[i].name] = DeclaredNames(key)

\* the three artifacts written for an entity of two fields
C15_Witness ==
    /\ pc = "standalone"
    /\ {PythonPath("top_users"), TypesPath, SchemaDocsPath} \subseteq DOMAIN tree
    /\ "top_users" \in DOMAIN file.val
    /\ DeclaredNames("top_users") = <<"id", "server_name">>
    /\ LET rows == tree[SchemaDocsPath].body[2].rows
       IN <<rows[1].name, rows[2].name>> = <<"id", "server_name">>

\* the migration files of the output tree
SqlPaths == {p \in DOMAIN tree : p[3] = "_schema_migration.sql"}

\* the fields of the document, as <<entity, position>>
AllDeclared ==
    {<<key, i>> \in Range(PresentTables(file.val, 1)) \X (1..MaxFields + 1) :
        i <= Len(DeclaredFields(key))}

\* the tokens the record and interface mapping tables have an entry for
Recognised(yaml_type) ==
    BaseType(yaml_type) \in
        {"serial", "integer", "varchar", "decimal", "timestamp", "text", "boolean"}

UnknownTyped == {u \in AllDeclared : ~Recognised(DeclaredFields(u[1])[u[2]]["type"])}

SqlColumn(p, u) == tree[p].body[TableIndex(u[1])].columns[u[2]]

\* C22: for a field whose type token no mapping table knows, the record, the
\* interface and the storage generator complete, and each emits the fallback
\* token of its own table: Any, any, and for storage one token that does not
\* depend on the unknown token.
C22_UnknownTypeFallsBack ==
    /\ \A u \in UnknownTyped :
          /\ PythonPath(u[1]) \in DOMAIN tree =>
                tree[PythonPath(u[1])].body.attributes[u[2]].py_type = "Any"
          /\ TypesPath \in DOMAIN tree =>
                tree[TypesPath].body.interfaces[TableIndex(u[1])].properties[u[2]].ts_type
                    = "any"
    /\ \A p \in SqlPaths :
          \A u, v \in UnknownTyped : SqlColumn(p, u).sql_type = SqlColumn(p, v).sql_type

\* the DEFAULT clause a default value asks for
DefaultClause(default) ==
    IF default = "CURRENT_TIMESTAMP" THEN <<"DEFAULT", "CURRENT_TIMESTAMP">>
    ELSE <<"DEFAULT", "'", default, "'">>

IsDefaultClause(c) == c[1] = "DEFAULT"

\* C23: the table statement has one column definition per field, in field
\* order; it carries PRIMARY KEY exactly when primary_key is set, NOT NULL
\* exactly when nullable (default true) is false, and a DEFAULT clause exactly
\* when a default is present: DEFAULT CURRENT_TIMESTAMP for the reserved
\* symbol, the quoted literal for any other default.
C23_ColumnConstraints ==
    \A p \in SqlPaths :
        \A key \in Range(PresentTables(file.val, 1)) :
            LET columns == tree[p].body[TableIndex(key)].columns
                fields == DeclaredFields(key)
            IN /\ Len(columns) = Len(fields)
               /\ \A i \in 1..Len(fields) :
                     LET f == fields[i]
                         c == columns[i].constraints
                     IN /\ columns[i].name = f["name"]
                        /\ Count(c, <<"PRIMARY KEY">>) =
                              IF "primary_key" \in DOMAIN f /\ f["primary_key"]
                              THEN 1 ELSE 0
                        /\ Count(c, <<"NOT NULL">>) =
                              IF "nullable" \in DOMAIN f /\ ~f["nullable"]
                              THEN 1 ELSE 0
                        /\ SelectSeq(c, IsDefaultClause) =
                              IF "default" \in DOMAIN f
                              THEN <<DefaultClause(f["default"])>> ELSE <<>>

\* a migration written for a table whose first field is a primary key, not
\* nullable, with a literal default, and whose second field has the reserved
\* default and says nothing about nullable
C23_Witness ==
    /\ pc = "standalone"
    /\ SqlPaths # {}
    /\ Len(DeclaredFields("server_metrics")) >= 2
    /\ \E p \in SqlPaths :
          LET columns == tree[p].body[1].columns
          IN /\ columns[1].constraints =
                   <<<<"PRIMARY KEY">>, <<"NOT NULL">>, <<"DEFAULT", "'", "0", "'">>>>
             /\ columns[2].constraints = <<<<"DEFAULT", "CURRENT_TIMESTAMP">>>>
             /\ "nullable" \notin DOMAIN DeclaredFields("server_metrics")[2]

\* the names the index policy asks for, among those entity key declares
IndexedByPolicy(key) ==
    LET fields == DeclaredFields(key)
        names == {fields[i]["name"] : i \in 1..Len(fields)}
        thresholds == {fields[i]["name"] :
                          i \in {j \in 1..Len(fields) :
                                    /\ "visualization" \in DOMAIN fields[j]
                                    /\ "thresholds" \in DOMAIN fields[j]["visualization"]}}
    IN ({"server_name", "timestamp"} \cup thresholds) \cap names

\* C24: for every entity the index statements are exactly one per name in the
\* union of {server_name, timestamp} and the fields carrying thresholds, among
\* the names the entity declares: none twice, none for a name it lacks.
C24_IndexesExactlyOnce ==
    \A p \in SqlPaths :
        \A key \in Range(PresentTables(file.val, 1)) :
            LET indexes == tree[p].body[TableIndex(key)].indexes
                columns == [k \in 1..Len(indexes) |-> indexes[k].column]
            IN /\ Range(columns) = IndexedByPolicy(key)
               /\ \A n \in IndexedByPolicy(key) : Count(columns, n) = 1
               /\ \A k \in 1..Len(indexes) :
                     indexes[k].table = file.val[key]["table_name"]

\* a migration written for a table in which server_name itself carries
\* thresholds and so does another field: two index statements
C24_Witness ==
    /\ pc = "standalone"
    /\ SqlPaths # {}
    /\ LET fields == DeclaredFields("server_metrics")
       IN /\ Len(fields) >= 2
          /\ fields[1]["name"] = "server_name" /\ HasThresholds(fields[1])
          /\ fields[2]["name"] = "cpu_load" /\ HasThresholds(fields[2])
    /\ \E p \in SqlPaths :
          LET indexes == tree[p].body[1].indexes
          IN <<indexes[1].column, indexes[2].column>> = <<"server_name", "cpu_load">>
             /\ Len(indexes) = 2

----------------------------------------------------------------------------
(* Properties of the dashboard cache *)

\* call i of the log sets or removes the entry of key
Touches(i, key) ==
    \/ oplog[i].op = "clear"
    \/ oplog[i].op \in {"set", "invalidate"} /\ oplog[i].key = key

\* the last call before call j that touched key, 0 if there is none
LastTouch(j, key) ==
    LET T == {i \in 1..(j - 1) : Touches(i, key)}
    IN IF T = {} THEN 0 ELSE CHOOSE i \in T : \A k \in T : k <= i

\* before call j, at time t: key was set, no later set, invalidate or clear
\* touched it, and the age of the entry does not exceed its ttl
LiveAt(j, key, t) ==
    LET i == LastTouch(j, key)
    IN /\ i > 0
       /\ oplog[i].op = "set"
       /\ t - oplog[i].at <= oplog[i].ttl

GetCalls == {j \in 1..Len(oplog) : oplog[j].op = "get"}

\* C25: a get(key) returns the value of the latest set(key, value, ttl) as
\* long as the age of the entry does not exceed ttl and no later set,
\* invalidate or clear touched the key; otherwise it returns None, and an
\* entry found too old is removed.
C25_GetWithinTtl ==
    /\ \A j \in GetCalls :
          oplog[j].returned =
             IF LiveAt(j, oplog[j].key, oplog[j].at)
             THEN oplog[LastTouch(j, oplog[j].key)].value
             ELSE PyNone
    /\ (Len(oplog) \in GetCalls
            /\ ~LiveAt(Len(oplog), oplog[Len(oplog)].key, oplog[Len(oplog)].at))
          => oplog[Len(oplog)].key \notin DOMAIN simple_cache.cache

\* set(a, v, 1), then a get at age 1 that returns v and a get at age 2 that
\* returns None and leaves no entry
C25_Witness ==
    /\ Len(oplog) >= 3
    /\ oplog[1].op = "set" /\ oplog[1].ttl = 1 /\ oplog[1].value = PyStr(<<"v">>)
    /\ \A i \in 2..3 : oplog[i].op = "get" /\ oplog[i].key = oplog[1].key
    /\ oplog[2].at - oplog[1].at = 1 /\ oplog[2].returned = PyStr(<<"v">>)
    /\ oplog[3].at - oplog[1].at = 2 /\ oplog[3].returned = PyNone
    /\ oplog[1].key \notin DOMAIN simple_cache.cache

\* the get calls since construction or the last clear
GetsSinceClear ==
    LET C == {i \in 1..Len(oplog) : oplog[i].op = "clear"}
    IN {j \in GetCalls : \A i \in C : i < j}

\* the keys with a stored entry: set last, and not found too old since by a
\* get of the key or by cleanup_expired
StoredKeys ==
    {key \in CacheKeys :
        LET i == LastTouch(Len(oplog) + 1, key)
        IN /\ i > 0
           /\ oplog[i].op = "set"
           /\ \A j \in (i + 1)..Len(oplog) :
                 (\/ oplog[j].op = "cleanup_expired"
                  \/ oplog[j].op = "get" /\ oplog[j].key = key)
                    => oplog[j].at - oplog[i].at <= oplog[i].ttl}

\* C27: hits counts the gets since construction or the last clear that found
\* an unexpired entry, misses the gets that found none or an expired one, so
\* total_requests is the number of those gets; cached_items is the number of
\* stored entries; set, invalidate and cleanup_expired count nothing.
C27_StatsCountGets ==
    LET hit == {j \in GetsSinceClear : LiveAt(j, oplog[j].key, oplog[j].at)}
    IN /\ get_stats(simple_cache).hits = Cardinality(hit)
       /\ get_stats(simple_cache).misses = Cardinality(GetsSinceClear \ hit)
       /\ get_stats(simple_cache).total_requests = Cardinality(GetsSinceClear)
       /\ get_stats(simple_cache).cached_items = Cardinality(StoredKeys)

\* after a set: a hit, then a miss on the same entry, expired by then and
\* dropped
C27_Witness ==
    /\ get_stats(simple_cache) =
          [hits |-> 1, misses |-> 1, total_requests |-> 2, cached_items |-> 0]
    /\ \E i, j \in GetCalls :
          /\ i < j
          /\ oplog[i].key = oplog[j].key
          /\ oplog[i].returned # PyNone
          /\ oplog[j].returned = PyNone
          /\ LastTouch(j, oplog[j].key) = LastTouch(i, oplog[i].key)

\* call i was made with the function and the arguments of call j
SameCall(i, j) ==
    /\ calls[i].func = calls[j].func
    /\ calls[i].args = calls[j].args
    /\ calls[i].kwargs = calls[j].kwargs

\* the SimpleCache was cleared between call i and call j
ClearedBetween(i, j) ==
    \E k \in calls[i].seq..calls[j].seq : oplog[k].op = "clear"

\* the last call before j, with the function and arguments of j, that
\* executed the body; 0 if there is none
LastExecuted(j) ==
    LET E == {i \in 1..(j - 1) : SameCall(i, j) /\ calls[i].executed}
    IN IF E = {} THEN 0 ELSE CHOOSE i \in E : \A k \in E : k <= i

\* the result of an earlier execution is stored and not expired at call j
Stored(j) ==
    /\ LastExecuted(j) > 0
    /\ calls[j].at - calls[LastExecuted(j)].at <= calls[j].func.ttl_seconds
    /\ ~ClearedBetween(LastExecuted(j), j)

\* C26: a call of a decorated function with the arguments of an earlier call
\* that executed the body, made before that entry expires, returns the stored
\* result without executing the body again, whatever value the body returned;
\* a call with no such entry, other arguments included, executes the body.
C26_ExecutedOncePerArguments ==
    \A j \in 1..Len(calls) :
        IF Stored(j)
        THEN ~calls[j].executed /\ calls[j].returned = calls[LastExecuted(j)].returned
        ELSE calls[j].executed

----------------------------------------------------------------------------
(* Properties of the API client *)

Ended == retry.state \in {"returned", "raised"}

\* the function is invoked at most max_retries times, again only after a
\* retryable exception; a return ends the call at once with that result, any
\* other exception goes through at once, and after max_retries retryable
\* failures the last of them is raised
RetryBounded ==
    /\ retry.invocations <= retry.max_retries
    /\ \A i \in 1..Len(retry.caught) : retry.caught[i] \in Retryable
    /\ retry.state = "running" => retry.invocations = Len(retry.caught)
    /\ retry.state = "returned" =>
          /\ ~retry.ends.raised
          /\ \/ retry.invocations = Len(retry.caught) + 1
             \/ retry.max_retries = 0 /\ retry.invocations = 0
    /\ retry.state = "raised" =>
          /\ retry.ends.raised
          /\ IF retry.ends.exc \in Retryable
             THEN /\ retry.invocations = retry.max_retries
                  /\ Len(retry.caught) = retry.max_retries
                  /\ retry.ends.exc = retry.caught[Len(retry.caught)]
             ELSE retry.invocations = Len(retry.caught) + 1

\* C28: a call of a function under retry_on_failure(max_retries) invokes the
\* function at most max_retries times, re-invokes it only after an
\* APIConnectionError or APITimeoutError, returns a successful attempt's
\* result at once, lets any other exception through after that attempt, raises
\* the last exception after max_retries retryable failures, and always ends.
C28_RetryBoundedAndEnds == []RetryBounded /\ <>Ended

\* three attempts failed with retryable exceptions, the last of them is
\* raised, after sleeping 1 s and 2 s
C28_Witness ==
    /\ retry.state = "raised"
    /\ retry.max_retries = MAX_RETRIES
    /\ retry.invocations = MAX_RETRIES
    /\ retry.caught = <<"APIConnectionError", "APITimeoutError", "APIConnectionError">>
    /\ retry.ends = Raises("APIConnectionError")
    /\ retry.slept = 3

\* the API could not be reached
Unreachable(outcome) == outcome \in {"Timeout", "ConnectionError"}

\* C29: a call of get_latest_server_metrics that cannot reach the API issues
\* one request and is not retried, and returns the empty list, which is
\* stored: every later call returns it without a request as long as the entry
\* is not older than CACHE_TTL and no manual refresh cleared the cache; the
\* first call after that issues a request again.
C29_FailedFetchCached ==
    /\ retry.state # "raised"
    /\ retry.invocations <= 1
    /\ requests = Cardinality({j \in 1..Len(calls) : calls[j].executed})
    /\ \A j \in 1..Len(calls) :
          /\ (calls[j].executed /\ Unreachable(calls[j].outcome)) =>
                calls[j].returned = PyList(<<>>)
          /\ (LastExecuted(j) > 0 /\ Unreachable(calls[LastExecuted(j)].outcome)) =>
                IF Stored(j)
                THEN ~calls[j].executed /\ calls[j].returned = PyList(<<>>)
                ELSE calls[j].executed

\* a failed fetch, a call served the empty list at age CACHE_TTL, and a call
\* after a manual refresh that asks the API again
C29_Witness ==
    /\ Len(calls) = 3
    /\ calls[1].executed /\ calls[1].outcome = "ConnectionError"
    /\ ~calls[2].executed
    /\ calls[2].at - calls[1].at = CACHE_TTL
    /\ calls[2].returned = PyList(<<>>)
    /\ calls[3].executed
    /\ calls[3].at = calls[2].at
    /\ ClearedBetween(2, 3)
    /\ requests = 2

----------------------------------------------------------------------------
(* Properties of the collection service *)

\* The positions in cycles of the loop cycles that collected the disk usage.
DiskCycles ==
    {i \in 1..Len(cycles) : cycles[i].in_loop /\ cycles[i].collect_disk_usage}

\* Two disk-collecting cycles with none between them.
Consecutive(i, j) ==
    /\ i < j
    /\ \A k \in DiskCycles : ~(i < k /\ k < j)

\* C30: in continuous mode, the number of loop cycles from one cycle that
\* collects the users' disk usage to the next one equals
\* user_disk_data_interval.
C30_DiskEveryInterval ==
    \A i \in DiskCycles : \A j \in DiskCycles :
        Consecutive(i, j) => j - i = user_disk_data_interval

====
